---- MODULE Spec2Model ----
(***************************************************************************)
(* Verification model of the IoT device framework (iot-go-sdk):            *)
(*   - plugin.Manager    dependency-ordered InitAll / StartAll / StopAll   *)
(*   - core.IoTFramework Initialize / Start / RegisterDevice               *)
(*   - ota.ManagerImpl   PerformUpdate: download, verify, install          *)
(*   - rrpc.RRPCClient   request handling and responses                    *)
(*   - mqtt.Client       subscriptions and message routing                 *)
(*   - event.Bus         subscribe, publish, worker pool, stop             *)
(* Each subsystem has its own specification over the shared variable list; *)
(* the variables of the other subsystems stay at their initial values.     *)
(***************************************************************************)
EXTENDS Integers, Sequences, FiniteSets, TLC

\* The plugin names the application may construct.
Names == {"mqtt", "ota", "rule"}

\* The devices the application may register (DeviceID = PK.DN).
Devices == {"A.b", "A.c"}

\* ---- plugin manager: plugin.Manager (src/pkg/framework/plugin/plugin.go) ----
VARIABLES
    deps,        \* Plugin.Dependencies(): fixed per plugin, name -> set of names
    plugins,     \* Manager.plugins: the registered names
    started,     \* Manager.started: the names whose flag is true
    running,     \* the plugins actually running: Start succeeded, Stop not called since
    mgrOp,       \* the operation holding pluginsMutex: "idle", "InitAll", "StartAll", "StopAll", "Force"
    opDone,      \* the operation's local map: initialized / started / stopped
    progress,    \* the sweep's local progress flag
    sweepTodo,   \* names the current range-over-map sweep has not visited yet
    opLog,       \* lifecycle calls made by the current operation, in order
    opErrors,    \* StopAll's errors slice is non-empty
    opKind,      \* the operation that wrote opLog: "none", "InitAll", "StartAll", "StopAll"
    opPlugins,   \* m.plugins as the operation found it when it took the lock
    opResult,    \* what the last finished InitAll/StartAll/StopAll returned: "none", "ok", "error"
    regResult    \* what the last Register/Unregister returned: "none", "ok" or the
                 \* error

\* ---- framework core: core.IoTFramework (src/pkg/framework/core/framework.go) ----
VARIABLES
    fwState,        \* IoTFramework.state (LifecycleState)
    fwPc,           \* the position of the goroutine running Start
    devices,        \* IoTFramework.devices: the registered device ids
    fwSnapshot,     \* Start's local devices slice
    fwInitDone,     \* the devices of the slice Start has called OnInitialize on
    asyncInit,      \* devices whose "go OnInitialize" goroutine has not run yet
    asyncInited,    \* devices initialized by such a goroutine
    devicesAtStart, \* the devices registered when Start was entered
    fwTrace,        \* what Start has done so far, in order
    fwLast,         \* the last Initialize/Start/Stop call: the state it found and
                    \* whether it returned an error
    fwStopPc,       \* the position of the goroutine running Stop's shutdown sequence
    fwStopSnapshot, \* Stop's local devices slice
    fwDestroyed,    \* the devices of the slice Stop has called OnDestroy on
    fwStopTrace     \* what the Stop calls have done so far, in order

\* ---- OTA manager: ota.ManagerImpl (src/pkg/framework/plugin/plugin.go, second part) ----
VARIABLES
    otaStatus,      \* ManagerImpl.status
    currentVersion, \* ManagerImpl.currentVersion
    otaPc,          \* per caller: the position of its PerformUpdate call
    otaInfo,        \* per caller: the *UpdateInfo argument
    otaData,        \* per caller: the bytes its Download returned
    otaObserved,    \* per caller: the status its call found under the lock
    otaDlCalled,    \* per caller: its call has invoked downloader.Download
    otaResult,      \* per caller: the UpdateResult's Code ("none" before any return)
    otaEntryFiles,  \* per caller: the files as they were when its call began
    exeFile,        \* content of the executable (executablePath)
    backupFile,     \* content of {exe}.backup
    tempFile,       \* content of {exe}.new
    versionFile,    \* the version the version provider has saved
    procAlive,      \* FALSE once ExecuteUpdate has replaced the process
    otaWire,        \* per caller: the progress values its call handed to
                    \* otaClient.ReportProgress, in order
    otaRollback     \* per caller: its call has invoked updater.Rollback

\* ---- OTA messages: ota.Client.handleOTAMessage (src/pkg/ota/ota.go) and the
\*      manager's receive handler (src/pkg/framework/plugin/plugin.go) ----
VARIABLES
    otaAutoUpdate,  \* ManagerImpl.autoUpdate
    otaRecv,        \* the last OTA message handled: its receive type, its payload,
                    \* the task parsed from it and what became of it
    otaSpawned      \* the UpdateInfo of the auto-update goroutine last spawned

\* ---- Version store: FileVersionProvider (src/pkg/framework/plugin/plugin.go) ----
VARIABLES
    vfInitial,      \* the version file as it was before the first provider
    vfFile,         \* the version file
    vfCache,        \* FileVersionProvider.cache of the current provider
    vfLast,         \* the version and the module last set ("unset" before any)
    vfAllOk,        \* every SetVersion/SetModule so far returned nil
    vfFresh         \* the current provider was created after the last set

\* ---- Property set: MQTTPlugin.handlePropertySet
\*      (src/pkg/framework/plugins/mqtt/mqtt_plugin.go) and the framework's
\*      property.set handler (src/pkg/framework/core/framework.go) ----
VARIABLES
    fwProps,        \* IoTFramework.properties: per name "none", "r" (no setter) or "rw"
    propConnected,  \* the MQTT session of the plugin's client is connected
    propPc,         \* the position of the goroutine handling a property-set message
    propMsg,        \* the message being handled or last handled, and what its
                    \* handling has met so far
    propTodo,       \* the names of params the handler's loop has not taken yet
    propLog         \* what the handling has done, in order: setter calls, device
                    \* callbacks, the reply

\* ---- Service call: the framework's service.call handler
\*      (src/pkg/framework/core/framework.go) ----
VARIABLES
    fwServices,     \* IoTFramework.services: the names that have a handler
    svcPc,          \* the position of the service.call handler: "idle" or "devices"
    svcReq,         \* the service.call event being handled or last handled, with
                    \* what its handler returned
    svcTodo,        \* the devices of the handler's copy not tried yet
    svcLog          \* the handler invocations, device invocations and
                    \* service.response events of the event, in order

\* ---- Connection: MQTTPlugin.Start/Stop (mqtt_plugin.go), the connection
\*      handlers of mqtt.Client (src/pkg/ota/ota.go) and the framework's
\*      connectionState (src/pkg/framework/core/framework.go) ----
VARIABLES
    connPlugin,      \* the MQTT plugin: "loaded", "start failed", "started", "stopped"
    connClean,       \* config.MQTT.CleanSession, read by Connect
    connLink,        \* the library's session: "none", "up" or "lost"
    connFlag,        \* Client.connected
    connState,       \* IoTFramework.connectionState
    connStored,      \* the keys of Client.handlers
    connBroker,      \* the filters the broker holds for the session
    connEvents,      \* the connection events emitted, in order
    connReconnected  \* the session has been lost and re-established

\* ---- Handler order: Bus.SubscribeWithPriority's sort.Slice on one event type
\*      (src/pkg/framework/event/event.go) ----
VARIABLES
    sortSubs,       \* Bus.subscribers[t]: the handlers, each with the ordinal of its
                    \* subscription and its priority
    sortInvoked     \* the ordinals of the handlers in the order the last Publish
                    \* invoked them

\* ---- Locks: the plugin manager's pluginsMutex against OTAPlugin.mu
\*      (src/pkg/framework/plugins/ota/ota_plugin.go, plugin.go), and the
\*      framework's devicesMutex around device callbacks (framework.go) ----
VARIABLES
    pmWriter,       \* StopAll holds pluginsMutex for writing
    otaMu,          \* who holds OTAPlugin.mu: "none", "stop" or the device whose
                    \* registration holds it
    otaCached,      \* OTAPlugin.mqttClient is set
    otaManagers,    \* the keys of OTAPlugin.managers
    regPc,          \* per device: the position of the goroutine registering it
                    \* with the OTA plugin
    lockStopPc,     \* the position of StopAll, called by Framework.Stop
    tblDevices,     \* the keys of IoTFramework.devices
    tblWriter,      \* the device whose UnregisterDevice holds devicesMutex for
                    \* writing, or "none"
    tblCall,        \* the device callback that is running: the operation that
                    \* called it, the callback, the device
    tblBlocked      \* the running callback waits for devicesMutex

\* ---- Nested publish: handlers run by the worker pool that call Bus.Publish
\* themselves (src/pkg/framework/event/event.go) ----
VARIABLES
    poolCount,      \* Bus.workerCount of the started bus, -1 before NewBus
    poolQueue,      \* the tasks buffered in workerPool, oldest first
    poolTask,       \* per task: "none", "queued", "spawned", "handler", "wait", "done"
    poolRunner,     \* per task: the worker running it, 0 for a goroutine of its own
    outerPc         \* the application's Publish: "idle", "loop", "wait", "returned"

\* ---- Device callbacks: the callbacks the framework makes on a device from
\* RegisterDevice, the internal event handlers and Stop
\* (src/pkg/framework/core/framework.go) and MQTTPlugin.Stop
\* (src/pkg/framework/plugins/mqtt/mqtt_plugin.go) ----
VARIABLES
    cbDevices,      \* IoTFramework.devices of a Started framework
    cbPc,           \* the Stop call: "none", "devices", "StopAll", "done"
    cbSnapshot,     \* Stop's local devices slice
    cbMqtt,         \* the MQTT plugin is running (started, Stop not called yet)
    cbGo,           \* the callbacks handed to goroutines that have not run yet
    cbLog           \* per device: the callbacks invoked on it, in order

\* ---- RRPC client: rrpc.RRPCClient (src/pkg/config/config.go, second part) ----
VARIABLES
    rrpcHandlers,   \* RRPCClient.handlers: the methods that have a handler
    rrpcConnected,  \* mqttClient.IsConnected()
    rrpcAlive,      \* FALSE once a handler's panic has ended the process
    rrpcReq,        \* per delivered message: topic, payload, whether its method had a
                    \* handler on arrival, and how far its handling got
    rrpcOut         \* the responses published, in order

\* ---- MQTT session: mqtt.Client (src/pkg/ota/ota.go, second part) ----
VARIABLES
    mqttConnected,  \* Client.connected and the library's IsConnected()
    mqttHandlers,   \* Client.handlers: the handler stored under each topic filter
    mqttRoutes,     \* the filters subscribed at the MQTT library, each with the
                    \* callback Subscribe gave it
    mqttLast        \* the last incoming message: its topic, the handlers stored when
                    \* it arrived and the handlers that were invoked for it

\* ---- Event bus: event.Bus (src/pkg/framework/event/event.go) ----
VARIABLES
    busSubs,        \* Bus.subscribers[t] for one event type t: the handler list
    busCap,         \* the capacity of that slice's backing array
    busWorkerCount, \* Bus.workerCount
    busStarted,     \* Start has been called
    busCancelled,   \* Bus.cancel() has been called (ctx.Done() is closed)
    busClosed,      \* close(workerPool) has been executed
    busStopPc,      \* the position of the Stop call
    busQueue,       \* the tasks buffered in workerPool
    busWorker,      \* per worker goroutine: "none", "idle" or "exited"
    busCrash,       \* why the process ended: "none", "sendOnClosed", "handlerPanic"
    busLate,        \* a handler was subscribed after Stop had returned
    pubPc,          \* the position of the Publish call
    pubSeen,        \* per cell of the slice Publish read: the values the cell has held
                    \* since the read lock was released
    pubAlias,       \* the slice Publish read still shares the list's backing array
    pubRaced,       \* a Subscribe/Unsubscribe wrote that array before the copy
    pubCopy,        \* handlersCopy
    pubIdx,         \* the loop index into handlersCopy
    pubTask,        \* per index: the state of its async task
    pubErrors,      \* the errors slice is not empty
    pubPanicked,    \* how the handlers that panicked were run: "sync", "async"
    pubLog,         \* sync invocations, submissions and async invocations, in order
    pubMissed,      \* at return: the indexes of handlersCopy that were not invoked
    pubResult,      \* what the last Publish returned: "none", "nil", "error"
    pubAfterStop,   \* the Publish call began after Stop had returned
    pubStayed       \* the handlers listed at the lookup and not unsubscribed since

mgrVars == <<deps, plugins, started, running, mgrOp, opDone, progress,
             sweepTodo, opLog, opErrors, opKind, opPlugins, opResult, regResult>>

fwVars == <<fwState, fwPc, devices, fwSnapshot, fwInitDone, asyncInit,
            asyncInited, devicesAtStart, fwTrace,
           fwLast, fwStopPc, fwStopSnapshot, fwDestroyed, fwStopTrace>>

fwStopVars == <<fwStopPc, fwStopSnapshot, fwDestroyed, fwStopTrace>>

otaVars == <<otaStatus, currentVersion, otaPc, otaInfo, otaData, otaObserved,
             otaDlCalled, otaResult, otaEntryFiles, exeFile, backupFile, tempFile,
             versionFile, procAlive, otaWire, otaRollback>>

recvVars == <<otaAutoUpdate, otaRecv, otaSpawned>>

verVars == <<vfInitial, vfFile, vfCache, vfLast, vfAllOk, vfFresh>>

propVars == <<fwProps, propConnected, propPc, propMsg, propTodo, propLog>>

svcVars == <<fwServices, svcPc, svcReq, svcTodo, svcLog>>

connVars == <<connPlugin, connClean, connLink, connFlag, connState, connStored,
             connBroker, connEvents, connReconnected>>

sortVars == <<sortSubs, sortInvoked>>

lockVars == <<pmWriter, otaMu, otaCached, otaManagers, regPc, lockStopPc,
             tblDevices, tblWriter, tblCall, tblBlocked>>

cbVars == <<cbDevices, cbPc, cbSnapshot, cbMqtt, cbGo, cbLog>>

nestVars == <<poolCount, poolQueue, poolTask, poolRunner, outerPc>>

rrpcVars == <<rrpcHandlers, rrpcConnected, rrpcAlive, rrpcReq, rrpcOut>>

mqttVars == <<mqttConnected, mqttHandlers, mqttRoutes, mqttLast>>

busVars == <<busSubs, busCap, busWorkerCount, busStarted, busCancelled, busClosed,
             busStopPc, busQueue, busWorker, busCrash, busLate>>

pubVars == <<pubPc, pubSeen, pubAlias, pubRaced, pubCopy, pubIdx, pubTask, pubErrors,
             pubPanicked, pubLog, pubMissed, pubResult, pubAfterStop, pubStayed>>

vars == <<mgrVars, fwVars, otaVars, recvVars, verVars, rrpcVars, mqttVars, busVars, pubVars, propVars, svcVars, connVars, sortVars, lockVars, nestVars, cbVars>>

\* What an action of one subsystem leaves alone (the framework's actions also
\* drive its plugin manager).
notMgr == <<fwVars, otaVars, rrpcVars, mqttVars, busVars, pubVars, recvVars, verVars, propVars, svcVars, connVars, sortVars, lockVars, nestVars, cbVars>>
notFw == <<otaVars, rrpcVars, mqttVars, busVars, pubVars, recvVars, verVars, propVars, svcVars, connVars, sortVars, lockVars, nestVars, cbVars>>
notOta == <<mgrVars, fwVars, rrpcVars, mqttVars, busVars, pubVars, recvVars, verVars, propVars, svcVars, connVars, sortVars, lockVars, nestVars, cbVars>>
notRrpc == <<mgrVars, fwVars, otaVars, mqttVars, busVars, pubVars, recvVars, verVars, propVars, svcVars, connVars, sortVars, lockVars, nestVars, cbVars>>
notMqtt == <<mgrVars, fwVars, otaVars, rrpcVars, busVars, pubVars, recvVars, verVars, propVars, svcVars, connVars, sortVars, lockVars, nestVars, cbVars>>
notRecv == <<mgrVars, fwVars, rrpcVars, mqttVars, busVars, pubVars, verVars, propVars, svcVars, connVars, sortVars, lockVars, nestVars, cbVars>>
notVer == <<mgrVars, fwVars, otaVars, recvVars, rrpcVars, mqttVars, busVars, pubVars, propVars, svcVars, connVars, sortVars, lockVars, nestVars, cbVars>>
notProp == <<mgrVars, fwVars, otaVars, recvVars, verVars, rrpcVars, mqttVars, busVars, pubVars, svcVars, connVars, sortVars, lockVars, nestVars, cbVars>>
notSvc == <<mgrVars, fwVars, otaVars, recvVars, verVars, rrpcVars, mqttVars, busVars, pubVars, propVars, connVars, sortVars, lockVars, nestVars, cbVars>>
notConn == <<mgrVars, fwVars, otaVars, recvVars, verVars, rrpcVars, mqttVars, busVars, pubVars, propVars, svcVars, sortVars, lockVars, nestVars, cbVars>>
notSort == <<mgrVars, fwVars, otaVars, recvVars, verVars, rrpcVars, mqttVars, busVars, pubVars, propVars, svcVars, connVars, lockVars, nestVars, cbVars>>
notLock == <<mgrVars, fwVars, otaVars, recvVars, verVars, rrpcVars, mqttVars, busVars, pubVars, propVars, svcVars, connVars, sortVars, nestVars, cbVars>>
notNest == <<mgrVars, fwVars, otaVars, recvVars, verVars, rrpcVars, mqttVars, busVars, pubVars, propVars, svcVars, connVars, sortVars, lockVars, cbVars>>
notCb == <<mgrVars, fwVars, otaVars, recvVars, verVars, rrpcVars, mqttVars, busVars, pubVars, propVars, svcVars, connVars, sortVars, lockVars, nestVars>>
notBus == <<mgrVars, fwVars, otaVars, rrpcVars, mqttVars, recvVars, verVars, propVars, svcVars, connVars, sortVars, lockVars, nestVars, cbVars>>

\* ------------------------------------------------------------------------
\* Plugin manager
\* ------------------------------------------------------------------------

\* A lifecycle call recorded in opLog: the plugin, whether the call returned nil,
\* and the plugins that were running when the call was made.
Call(p, ok) == [name |-> p, ok |-> ok, live |-> running]

MgrInit ==
    /\ deps \in [Names -> SUBSET Names]
    /\ plugins = {}
    /\ started = {}
    /\ running = {}
    /\ mgrOp = "idle"
    /\ opDone = {}
    /\ progress = FALSE
    /\ sweepTodo = {}
    /\ opLog = <<>>
    /\ opErrors = FALSE
    /\ opKind = "none"
    /\ opPlugins = {}
    /\ opResult = "none"
    /\ regResult = "none"

\* Register without its dependency loop.
RegisterOkNoDependencyCheck(p) == p \notin plugins

\* Register that is content with one registered dependency.
RegisterOkAnyDependency(p) ==
    p \notin plugins /\ (deps[p] = {} \/ deps[p] \cap plugins # {})

\* Register: rejects a duplicate name and a dependency that is not registered.
RegisterOk(p) == p \notin plugins /\ deps[p] \subseteq plugins

Register(p) ==
    /\ mgrOp = "idle"
    /\ IF RegisterOk(p)
       THEN /\ plugins' = plugins \cup {p}
            /\ started' = started \ {p}
            /\ regResult' = "ok"
       ELSE /\ regResult' = IF p \in plugins THEN "already registered"
                            ELSE "dependency not found"
            /\ UNCHANGED <<plugins, started>>
    /\ UNCHANGED <<deps, running, mgrOp, opDone, progress, sweepTodo, opLog, opErrors, opKind, opPlugins, opResult>>
    /\ UNCHANGED notMgr

\* Unregister without its dependency loop.
NoDependents(p) == {}

\* The plugins that declare p as a dependency.
Dependents(p) == {q \in plugins : q # p /\ p \in deps[q]}

\* Unregister: stops the plugin when its flag is set, then refuses when another
\* plugin depends on it, else deletes it from both maps.
Unregister(p) ==
    /\ mgrOp = "idle"
    /\ IF p \notin plugins
       THEN /\ regResult' = "not found"
            /\ UNCHANGED <<plugins, started, running>>
       ELSE /\ running' = IF p \in started THEN running \ {p} ELSE running
            /\ IF Dependents(p) # {}
               THEN /\ regResult' = "depends on it"
                    /\ UNCHANGED <<plugins, started>>
               ELSE /\ plugins' = plugins \ {p}
                    /\ started' = started \ {p}
                    /\ regResult' = "ok"
    /\ UNCHANGED <<deps, mgrOp, opDone, progress, sweepTodo, opLog, opErrors, opKind, opPlugins, opResult>>
    /\ UNCHANGED notMgr

\* ---- InitAll ----

\* The head of "for len(done) < len(m.plugins)": start a sweep or return nil.
LoopHead(op, done) ==
    IF Cardinality(done) < Cardinality(plugins)
    THEN /\ mgrOp' = op
         /\ sweepTodo' = plugins
         /\ progress' = FALSE
         /\ UNCHANGED opResult
    ELSE /\ mgrOp' = "idle"
         /\ sweepTodo' = {}
         /\ progress' = FALSE
         /\ opResult' = "ok"

InitAllBegin ==
    /\ mgrOp = "idle"
    /\ opKind' = "InitAll"
    /\ opPlugins' = plugins
    /\ opDone' = {}
    /\ opLog' = <<>>
    /\ opErrors' = FALSE
    /\ LoopHead("InitAll", {})
    /\ UNCHANGED <<deps, plugins, started, running, regResult>>

\* canInit: every dependency is in the local initialized map.
CanInit(p) == deps[p] \subseteq opDone

\* One iteration of the range over m.plugins in InitAll.
InitAllVisit(p, ok) ==
    /\ mgrOp = "InitAll"
    /\ p \in sweepTodo
    /\ IF p \notin opDone /\ CanInit(p)
       THEN /\ opLog' = Append(opLog, Call(p, ok))
            /\ IF ok
               THEN /\ opDone' = opDone \cup {p}
                    /\ progress' = TRUE
                    /\ sweepTodo' = sweepTodo \ {p}
                    /\ UNCHANGED <<mgrOp, opResult>>
               ELSE /\ mgrOp' = "idle"
                    /\ opResult' = "error"
                    /\ sweepTodo' = {}
                    /\ UNCHANGED <<opDone, progress>>
       ELSE /\ sweepTodo' = sweepTodo \ {p}
            /\ UNCHANGED <<mgrOp, opDone, progress, opLog, opResult>>
    /\ UNCHANGED <<opKind, opPlugins, regResult, deps, plugins, started, running, opErrors>>
    /\ UNCHANGED notMgr

\* The end of a sweep: no progress is reported as a circular dependency.
InitAllSweepEnd ==
    /\ mgrOp = "InitAll"
    /\ sweepTodo = {}
    /\ IF ~progress
       THEN /\ mgrOp' = "idle"
            /\ opResult' = "error"
            /\ UNCHANGED <<sweepTodo, progress>>
       ELSE LoopHead("InitAll", opDone)
    /\ UNCHANGED <<opKind, opPlugins, regResult, deps, plugins, started, running, opDone, opLog, opErrors>>
    /\ UNCHANGED notMgr

\* ---- StartAll ----

StartAllBegin ==
    /\ mgrOp = "idle"
    /\ opKind' = "StartAll"
    /\ opPlugins' = plugins
    /\ opDone' = {}
    /\ opLog' = <<>>
    /\ opErrors' = FALSE
    /\ LoopHead("StartAll", {})
    /\ UNCHANGED <<deps, plugins, started, running, regResult>>

\* Mutant of CanStart: one started dependency is enough.
CanStartAnyDep(p) == deps[p] = {} \/ deps[p] \cap opDone # {}

\* canStart: every dependency is in the local started map.
CanStart(p) == deps[p] \subseteq opDone

StartAllVisit(p, ok) ==
    /\ mgrOp = "StartAll"
    /\ p \in sweepTodo
    /\ IF p \notin opDone /\ CanStart(p)
       THEN /\ opLog' = Append(opLog, Call(p, ok))
            /\ IF ok
               THEN /\ started' = started \cup {p}
                    /\ running' = running \cup {p}
                    /\ opDone' = opDone \cup {p}
                    /\ progress' = TRUE
                    /\ sweepTodo' = sweepTodo \ {p}
                    /\ UNCHANGED <<mgrOp, opResult>>
               ELSE /\ mgrOp' = "idle"
                    /\ opResult' = "error"
                    /\ sweepTodo' = {}
                    /\ UNCHANGED <<started, running, opDone, progress>>
       ELSE /\ sweepTodo' = sweepTodo \ {p}
            /\ UNCHANGED <<mgrOp, started, running, opDone, progress, opLog, opResult>>
    /\ UNCHANGED <<opKind, opPlugins, regResult, deps, plugins, opErrors>>
    /\ UNCHANGED notMgr

StartAllSweepEnd ==
    /\ mgrOp = "StartAll"
    /\ sweepTodo = {}
    /\ IF ~progress
       THEN /\ mgrOp' = "idle"
            /\ opResult' = "error"
            /\ UNCHANGED <<sweepTodo, progress>>
       ELSE LoopHead("StartAll", opDone)
    /\ UNCHANGED <<opKind, opPlugins, regResult, deps, plugins, started, running, opDone, opLog, opErrors>>
    /\ UNCHANGED notMgr

\* ---- StopAll ----

\* StopAll returns: an error when the errors slice is non-empty.
StopAllReturn(errs) ==
    /\ mgrOp' = "idle"
    /\ sweepTodo' = {}
    /\ progress' = FALSE
    /\ opResult' = IF errs THEN "error" ELSE "ok"

StopLoopHead(done, errs) ==
    IF Cardinality(done) < Cardinality(plugins)
    THEN /\ mgrOp' = "StopAll"
         /\ sweepTodo' = plugins
         /\ progress' = FALSE
         /\ UNCHANGED opResult
    ELSE StopAllReturn(errs)

StopAllBegin ==
    /\ mgrOp = "idle"
    /\ opKind' = "StopAll"
    /\ opPlugins' = plugins
    /\ opDone' = {}
    /\ opLog' = <<>>
    /\ opErrors' = FALSE
    /\ StopLoopHead({}, FALSE)
    /\ UNCHANGED <<deps, plugins, started, running, regResult>>

\* canStop: no plugin outside the local stopped map declares p as a dependency.
CanStop(p) == \A q \in plugins : (q \in opDone \/ q = p) \/ p \notin deps[q]

\* One iteration of the outer range over m.plugins in StopAll.
StopAllVisit(p, ok) ==
    /\ mgrOp = "StopAll"
    /\ p \in sweepTodo
    /\ sweepTodo' = sweepTodo \ {p}
    /\ IF p \notin opDone /\ p \in started /\ CanStop(p)
       THEN /\ opLog' = Append(opLog, Call(p, ok))
            /\ opErrors' = (opErrors \/ ~ok)
            /\ started' = started \ {p}
            /\ running' = running \ {p}
            /\ opDone' = opDone \cup {p}
            /\ progress' = TRUE
       ELSE UNCHANGED <<started, running, opDone, progress, opLog, opErrors>>
    /\ UNCHANGED <<opKind, opPlugins, regResult, deps, plugins, mgrOp, opResult>>
    /\ UNCHANGED notMgr

\* The end of a StopAll sweep: without progress the force-stop pass begins.
StopAllSweepEnd ==
    /\ mgrOp = "StopAll"
    /\ sweepTodo = {}
    /\ IF ~progress
       THEN /\ mgrOp' = "Force"
            /\ sweepTodo' = plugins
            /\ UNCHANGED <<progress, opResult>>
       ELSE StopLoopHead(opDone, opErrors)
    /\ UNCHANGED <<opKind, opPlugins, regResult, deps, plugins, started, running, opDone, opLog, opErrors>>
    /\ UNCHANGED notMgr

\* The plugins the force-stop pass calls Stop on.
ForceStops(p) == p \notin opDone /\ p \in started

\* One iteration of the force-stop range over m.plugins.
StopAllForceVisit(p, ok) ==
    /\ mgrOp = "Force"
    /\ p \in sweepTodo
    /\ sweepTodo' = sweepTodo \ {p}
    /\ IF ForceStops(p)
       THEN /\ opLog' = Append(opLog, Call(p, ok))
            /\ opErrors' = (opErrors \/ ~ok)
            /\ started' = started \ {p}
            /\ running' = running \ {p}
            /\ opDone' = opDone \cup {p}
       ELSE UNCHANGED <<started, running, opDone, opLog, opErrors>>
    /\ UNCHANGED <<opKind, opPlugins, regResult, deps, plugins, mgrOp, progress, opResult>>
    /\ UNCHANGED notMgr

\* The break after the force-stop pass, and StopAll's return.
StopAllForceEnd ==
    /\ mgrOp = "Force"
    /\ sweepTodo = {}
    /\ mgrOp' = "idle"
    /\ progress' = FALSE
    /\ opResult' = IF opErrors THEN "error" ELSE "ok"
    /\ UNCHANGED <<opKind, opPlugins, regResult, deps, plugins, started, running, opDone, sweepTodo, opLog, opErrors>>
    /\ UNCHANGED notMgr

\* A caller other than the framework invokes the operation on the manager.
CallInitAll == InitAllBegin /\ UNCHANGED notMgr

CallStartAll == StartAllBegin /\ UNCHANGED notMgr

CallStopAll == StopAllBegin /\ UNCHANGED notMgr

\* The steps of an operation in progress.
MgrStep ==
    \/ \E p \in Names, ok \in BOOLEAN : InitAllVisit(p, ok)
    \/ InitAllSweepEnd
    \/ \E p \in Names, ok \in BOOLEAN : StartAllVisit(p, ok)
    \/ StartAllSweepEnd
    \/ \E p \in Names, ok \in BOOLEAN : StopAllVisit(p, ok)
    \/ StopAllSweepEnd
    \/ \E p \in Names, ok \in BOOLEAN : StopAllForceVisit(p, ok)
    \/ StopAllForceEnd

MgrNext ==
    \/ \E p \in Names : Register(p)
    \/ \E p \in Names : Unregister(p)
    \/ CallInitAll
    \/ CallStartAll
    \/ CallStopAll
    \/ MgrStep


\* ------------------------------------------------------------------------
\* Framework core
\* ------------------------------------------------------------------------

FwInit ==
    /\ fwState = "Uninitialized"
    /\ fwPc = "idle"
    /\ devices = {}
    /\ fwSnapshot = {}
    /\ fwInitDone = {}
    /\ asyncInit = {}
    /\ asyncInited = {}
    /\ devicesAtStart = {}
    /\ fwTrace = <<>>
    /\ fwLast = [call |-> "none", before |-> "-", result |-> "-"]
    /\ fwStopPc = "idle"
    /\ fwStopSnapshot = {}
    /\ fwDestroyed = {}
    /\ fwStopTrace = <<>>

\* A step of Start recorded in fwTrace. For a manager operation, pending is the set
\* of plugins the operation found registered and made no successful call on.
Step(ev, dev, pending) == [ev |-> ev, dev |-> dev, pending |-> pending]

\* The plugins the last manager operation called successfully.
CalledOk == {opLog[i].name : i \in {j \in DOMAIN opLog : opLog[j].ok}}

\* The record of a lifecycle call that found the state it needs (accepted) or not.
Called(call, accepted) ==
    [call |-> call, before |-> fwState, result |-> IF accepted THEN "ok" ELSE "error"]

\* Initialize: allocates the event bus and the plugin manager; an error when the
\* state is not Uninitialized.
Initialize ==
    /\ fwPc = "idle"
    /\ IF fwState = "Uninitialized"
       THEN fwState' = "Initialized"
       ELSE UNCHANGED fwState
    /\ fwLast' = Called("Initialize", fwState = "Uninitialized")
    /\ UNCHANGED fwStopVars
    /\ UNCHANGED <<fwPc, devices, fwSnapshot, fwInitDone, asyncInit, asyncInited,
                   devicesAtStart, fwTrace>>
    /\ UNCHANGED mgrVars
    /\ UNCHANGED notFw

\* LoadPlugin / UnloadPlugin delegate to the manager Initialize allocated.
LoadPlugin(p) == fwState # "Uninitialized" /\ Register(p)

UnloadPlugin(p) == fwState # "Uninitialized" /\ Unregister(p)

\* Start, up to the call of InitAll: the state check, eventBus.Start, and InitAll
\* taking the manager's lock.
StartBegin ==
    /\ fwPc = "idle"
    /\ fwState = "Initialized"
    /\ mgrOp = "idle"
    /\ fwLast' = Called("Start", TRUE)
    /\ UNCHANGED fwStopVars
    /\ fwState' = "Starting"
    /\ fwPc' = "InitAll"
    /\ devicesAtStart' = devices
    /\ fwTrace' = <<Step("eventBus.Start", "-", {})>>
    /\ InitAllBegin
    /\ UNCHANGED <<devices, fwSnapshot, fwInitDone, asyncInit, asyncInited>>
    /\ UNCHANGED notFw

\* Where Start goes after a manager operation returned.
AfterInitAll(result) == IF result = "error" THEN "failed" ELSE "StartAll"

\* Mutant of AfterStartAll: the error of StartAll is ignored.
AfterStartAllIgnoreError(result) == "devices"

AfterStartAll(result) == IF result = "error" THEN "failed" ELSE "devices"

\* InitAll has returned: Start returns its error, or calls StartAll.
StartAfterInitAll ==
    /\ fwPc = "InitAll"
    /\ mgrOp = "idle"
    /\ fwPc' = AfterInitAll(opResult)
    /\ fwTrace' = Append(fwTrace, Step("InitAll", "-", opPlugins \ CalledOk))
    /\ IF AfterInitAll(opResult) = "StartAll"
       THEN StartAllBegin
       ELSE UNCHANGED mgrVars
    /\ UNCHANGED <<fwState, devices, fwSnapshot, fwInitDone, asyncInit, asyncInited,
                   devicesAtStart>>
    /\ UNCHANGED <<fwLast, fwStopVars>>
    /\ UNCHANGED notFw

\* StartAll has returned: Start returns its error, or copies the device table.
StartAfterStartAll ==
    /\ fwPc = "StartAll"
    /\ mgrOp = "idle"
    /\ fwPc' = AfterStartAll(opResult)
    /\ fwTrace' = Append(fwTrace, Step("StartAll", "-", opPlugins \ CalledOk))
    /\ fwSnapshot' = IF AfterStartAll(opResult) = "devices" THEN devices ELSE {}
    /\ fwInitDone' = {}
    /\ UNCHANGED <<fwState, devices, asyncInit, asyncInited, devicesAtStart>>
    /\ UNCHANGED mgrVars
    /\ UNCHANGED <<fwLast, fwStopVars>>
    /\ UNCHANGED notFw

\* One iteration of Start's loop over the copied devices (an error is only logged).
StartInitDevice(d) ==
    /\ fwPc = "devices"
    /\ d \in fwSnapshot \ fwInitDone
    /\ fwInitDone' = fwInitDone \cup {d}
    /\ fwTrace' = Append(fwTrace, Step("OnInitialize", d, {}))
    /\ UNCHANGED <<fwState, fwPc, devices, fwSnapshot, asyncInit, asyncInited,
                   devicesAtStart>>
    /\ UNCHANGED mgrVars
    /\ UNCHANGED <<fwLast, fwStopVars>>
    /\ UNCHANGED notFw

\* The loop is over: Start emits system.ready.
StartEmitReady ==
    /\ fwPc = "devices"
    /\ fwSnapshot = fwInitDone
    /\ fwPc' = "ready"
    /\ fwTrace' = Append(fwTrace, Step("system.ready", "-", {}))
    /\ UNCHANGED <<fwState, devices, fwSnapshot, fwInitDone, asyncInit, asyncInited,
                   devicesAtStart>>
    /\ UNCHANGED mgrVars
    /\ UNCHANGED <<fwLast, fwStopVars>>
    /\ UNCHANGED notFw

\* Start sets the state and returns nil.
StartDone ==
    /\ fwPc = "ready"
    /\ fwPc' = "done"
    /\ fwState' = "Started"
    /\ fwTrace' = Append(fwTrace, Step("Started", "-", {}))
    /\ UNCHANGED <<devices, fwSnapshot, fwInitDone, asyncInit, asyncInited,
                   devicesAtStart>>
    /\ UNCHANGED mgrVars
    /\ UNCHANGED <<fwLast, fwStopVars>>
    /\ UNCHANGED notFw

\* RegisterDevice: rejects a duplicate id; on a Started framework it schedules
\* OnInitialize on a fresh goroutine.
RegisterDevice(d) ==
    /\ IF d \in devices
       THEN UNCHANGED <<devices, asyncInit>>
       ELSE /\ devices' = devices \cup {d}
            /\ asyncInit' = IF fwState = "Started" THEN asyncInit \cup {d} ELSE asyncInit
    /\ UNCHANGED <<fwState, fwPc, fwSnapshot, fwInitDone, asyncInited, devicesAtStart,
                   fwTrace>>
    /\ UNCHANGED mgrVars
    /\ UNCHANGED <<fwLast, fwStopVars>>
    /\ UNCHANGED notFw

\* The goroutine RegisterDevice started calls OnInitialize.
AsyncOnInitialize(d) ==
    /\ d \in asyncInit
    /\ asyncInit' = asyncInit \ {d}
    /\ asyncInited' = asyncInited \cup {d}
    /\ UNCHANGED <<fwState, fwPc, devices, fwSnapshot, fwInitDone, devicesAtStart,
                   fwTrace>>
    /\ UNCHANGED mgrVars
    /\ UNCHANGED <<fwLast, fwStopVars>>
    /\ UNCHANGED notFw

\* Start on a framework that is not Initialized: an error, nothing else.
StartRejected ==
    /\ fwState # "Initialized"
    /\ fwLast' = Called("Start", FALSE)
    /\ UNCHANGED <<fwState, fwPc, devices, fwSnapshot, fwInitDone, asyncInit, asyncInited,
                   devicesAtStart, fwTrace>>
    /\ UNCHANGED fwStopVars
    /\ UNCHANGED mgrVars
    /\ UNCHANGED notFw

\* A step of a shutdown sequence recorded in fwStopTrace.
StopStep(ev, dev) == [ev |-> ev, dev |-> dev]

\* Mutant of StopAllowed: a framework that was never started may be stopped too.
StopAllowedBeforeStart(state) == state \in {"Started", "Initialized"}

\* Stop's check under stateMutex: "f.state != LifecycleStarted" returns an error.
StopAllowed(state) == state = "Started"

\* A Stop call, up to the copy of the device table: refused with an error, or the
\* state becomes Stopping and the shutdown sequence begins.
StopCall ==
    /\ fwLast' = Called("Stop", StopAllowed(fwState))
    /\ IF StopAllowed(fwState)
       THEN /\ fwState' = "Stopping"
            /\ fwStopPc' = "devices"
            /\ fwStopSnapshot' = devices
            /\ fwDestroyed' = {}
            /\ fwStopTrace' = Append(fwStopTrace, StopStep("begin", "-"))
       ELSE UNCHANGED <<fwState, fwStopVars>>
    /\ UNCHANGED <<fwPc, devices, fwSnapshot, fwInitDone, asyncInit, asyncInited,
                   devicesAtStart, fwTrace>>
    /\ UNCHANGED mgrVars
    /\ UNCHANGED notFw

\* One iteration of Stop's loop over the copied devices (an error is only logged).
StopDestroyDevice(d) ==
    /\ fwStopPc = "devices"
    /\ d \in fwStopSnapshot \ fwDestroyed
    /\ fwDestroyed' = fwDestroyed \cup {d}
    /\ fwStopTrace' = Append(fwStopTrace, StopStep("OnDestroy", d))
    /\ UNCHANGED <<fwState, fwPc, devices, fwSnapshot, fwInitDone, asyncInit, asyncInited,
                   devicesAtStart, fwTrace, fwLast, fwStopPc, fwStopSnapshot>>
    /\ UNCHANGED mgrVars
    /\ UNCHANGED notFw

\* The loop is over: Stop calls StopAll, which takes the manager's lock.
StopPlugins ==
    /\ fwStopPc = "devices"
    /\ fwStopSnapshot = fwDestroyed
    /\ mgrOp = "idle"
    /\ fwStopPc' = "StopAll"
    /\ fwStopTrace' = Append(fwStopTrace, StopStep("StopAll", "-"))
    /\ StopAllBegin
    /\ UNCHANGED <<fwState, fwPc, devices, fwSnapshot, fwInitDone, asyncInit, asyncInited,
                   devicesAtStart, fwTrace, fwLast, fwStopSnapshot, fwDestroyed>>
    /\ UNCHANGED notFw

\* StopAll has returned (its error is only logged): the event bus is stopped, the
\* context cancelled, the goroutines awaited, and the state becomes Stopped.
StopDone ==
    /\ fwStopPc = "StopAll"
    /\ mgrOp = "idle"
    /\ fwStopPc' = "done"
    /\ fwState' = "Stopped"
    /\ fwStopTrace' = fwStopTrace \o <<StopStep("eventBus.Stop", "-"), StopStep("cancel", "-")>>
    /\ UNCHANGED <<fwPc, devices, fwSnapshot, fwInitDone, asyncInit, asyncInited,
                   devicesAtStart, fwTrace, fwLast, fwStopSnapshot, fwDestroyed>>
    /\ UNCHANGED mgrVars
    /\ UNCHANGED notFw

FwNext ==
    \/ Initialize
    \/ \E p \in Names : LoadPlugin(p)
    \/ \E p \in Names : UnloadPlugin(p)
    \/ \E d \in Devices : RegisterDevice(d)
    \/ \E d \in Devices : AsyncOnInitialize(d)
    \/ StartBegin
    \/ \E p \in Names, ok \in BOOLEAN : InitAllVisit(p, ok)
    \/ InitAllSweepEnd
    \/ StartAfterInitAll
    \/ \E p \in Names, ok \in BOOLEAN : StartAllVisit(p, ok)
    \/ StartAllSweepEnd
    \/ StartAfterStartAll
    \/ \E d \in Devices : StartInitDevice(d)
    \/ StartEmitReady
    \/ StartDone

\* The plugins and the device of the application whose whole life, from
\* Initialize to Stop, is followed.
LifeNames == {"mqtt", "ota"}

LifeDevices == {"A.b"}

FwLifeNext ==
    \/ Initialize
    \/ \E p \in LifeNames : LoadPlugin(p)
    \/ \E p \in LifeNames : UnloadPlugin(p)
    \/ \E d \in LifeDevices : RegisterDevice(d)
    \/ \E d \in LifeDevices : AsyncOnInitialize(d)
    \/ StartBegin
    \/ StartRejected
    \/ \E p \in LifeNames, ok \in BOOLEAN : InitAllVisit(p, ok)
    \/ InitAllSweepEnd
    \/ StartAfterInitAll
    \/ \E p \in LifeNames, ok \in BOOLEAN : StartAllVisit(p, ok)
    \/ StartAllSweepEnd
    \/ StartAfterStartAll
    \/ \E d \in LifeDevices : StartInitDevice(d)
    \/ StartEmitReady
    \/ StartDone
    \/ StopCall
    \/ \E d \in LifeDevices : StopDestroyDevice(d)
    \/ StopPlugins
    \/ \E p \in LifeNames, ok \in BOOLEAN : StopAllVisit(p, ok)
    \/ StopAllSweepEnd
    \/ \E p \in LifeNames, ok \in BOOLEAN : StopAllForceVisit(p, ok)
    \/ StopAllForceEnd
    \/ StopDone

\* ------------------------------------------------------------------------
\* OTA manager
\* ------------------------------------------------------------------------

\* The goroutines that may call PerformUpdate on one manager (the auto-update
\* goroutine of the receive handler, an application call).
Callers == {"c1", "c2"}

\* Firmware images a server may deliver, with their MD5 digest (lowercase hex, as
\* fmt.Sprintf("%x") prints it) and length.
Images == {"fwA", "fwB", "fwLong"}

MD5Hex(data) ==
    CASE data = "fwA" -> "0a"
      [] data = "fwB" -> "0b"
      [] data = "fwLong" -> "0c"

SizeOf(data) == IF data = "fwLong" THEN "8k" ELSE "4k"

\* The digests a task may carry: of an image, in lowercase or uppercase hex.
Digests == {"0a", "0b", "0A"}

Infos == [Version : {"1.0.1"}, Digest : Digests, Size : {"4k"}]

NoInfo == [Version |-> "-", Digest |-> "-", Size |-> "-"]

Files == <<exeFile, backupFile, tempFile, versionFile>>

OtaInit ==
    /\ otaStatus = "idle"
    /\ currentVersion = "1.0.0"
    /\ otaPc = [c \in Callers |-> "ready"]
    /\ otaInfo = [c \in Callers |-> NoInfo]
    /\ otaData = [c \in Callers |-> "-"]
    /\ otaObserved = [c \in Callers |-> "none"]
    /\ otaDlCalled = [c \in Callers |-> FALSE]
    /\ otaResult = [c \in Callers |-> "none"]
    /\ otaEntryFiles = [c \in Callers |-> <<"-", "-", "-", "-">>]
    /\ exeFile = "fw0"
    /\ backupFile = "none"
    /\ tempFile = "none"
    /\ versionFile = "1.0.0"
    /\ procAlive = TRUE
    /\ otaWire = [c \in Callers |-> <<>>]
    /\ otaRollback = [c \in Callers |-> FALSE]

\* notifyStatus(status, progress, message), its report to the platform: progress -1
\* for Failed; the progress given for Downloading, Verifying and Updating; nothing
\* for any other status.
Reported(wire, status, pct) ==
    IF status = "failed" THEN Append(wire, "-1")
    ELSE IF status \in {"downloading", "verifying", "updating"} THEN Append(wire, pct)
    ELSE wire

NotifyStatus(c, status, pct) ==
    otaWire' = [otaWire EXCEPT ![c] = Reported(@, status, pct)]

\* Download's progress callback: notifyStatus(Downloading, percentage) for the
\* bytes read, when any were; "pct" stands for its percentages, none negative.
ProgressCallback(wire, got) ==
    IF got = "error" THEN wire ELSE Reported(wire, "downloading", "pct")

\* PerformUpdate returns result code `code` to caller c.
Return(c, code) ==
    /\ otaPc' = [otaPc EXCEPT ![c] = "returned"]
    /\ otaResult' = [otaResult EXCEPT ![c] = code]

\* Mutant of Busy: only a download in progress refuses a new update.
BusyOnlyDownloading(status) == status = "downloading"

\* The check under m.mu: "if m.status != StatusIdle".
Busy(status) == status # "idle"

\* PerformUpdate, the critical section: refuse, or take the manager (Downloading).
PerformUpdate(c, info) ==
    /\ procAlive
    /\ otaPc[c] \in {"ready", "returned"}
    /\ otaObserved' = [otaObserved EXCEPT ![c] = otaStatus]
    /\ otaInfo' = [otaInfo EXCEPT ![c] = info]
    /\ otaData' = [otaData EXCEPT ![c] = "-"]
    /\ otaDlCalled' = [otaDlCalled EXCEPT ![c] = FALSE]
    /\ otaEntryFiles' = [otaEntryFiles EXCEPT ![c] = Files]
    /\ otaRollback' = [otaRollback EXCEPT ![c] = FALSE]
    /\ IF Busy(otaStatus)
       THEN /\ Return(c, "-1")
            /\ otaWire' = [otaWire EXCEPT ![c] = <<>>]
            /\ UNCHANGED otaStatus
       ELSE /\ otaStatus' = "downloading"
            /\ otaWire' = [otaWire EXCEPT ![c] = Reported(<<>>, "downloading", "0")]
            /\ otaPc' = [otaPc EXCEPT ![c] = "download"]
            /\ otaResult' = [otaResult EXCEPT ![c] = "none"]
    /\ UNCHANGED <<currentVersion, exeFile, backupFile, tempFile, versionFile, procAlive>>
    /\ UNCHANGED notOta

\* m.downloader.Download is called.
DownloadCall(c) ==
    /\ procAlive
    /\ otaPc[c] = "download"
    /\ otaPc' = [otaPc EXCEPT ![c] = "downloading"]
    /\ otaDlCalled' = [otaDlCalled EXCEPT ![c] = TRUE]
    /\ UNCHANGED <<otaWire, otaRollback>>
    /\ UNCHANGED <<otaStatus, currentVersion, otaInfo, otaData, otaObserved, otaResult,
                   otaEntryFiles, exeFile, backupFile, tempFile, versionFile, procAlive>>
    /\ UNCHANGED notOta

\* Download returns: an error (transport, HTTP status, or the length differs from
\* info.Size), else the bytes; PerformUpdate fails with -2 or goes on to verify.
DownloadReturn(c, got) ==
    /\ procAlive
    /\ otaPc[c] = "downloading"
    /\ IF got = "error" \/ SizeOf(got) # otaInfo[c].Size
       THEN /\ otaStatus' = "failed"
            /\ otaWire' = [otaWire EXCEPT ![c] =
                               Reported(ProgressCallback(@, got), "failed", "0")]
            /\ Return(c, "-2")
            /\ UNCHANGED otaData
       ELSE /\ otaData' = [otaData EXCEPT ![c] = got]
            /\ otaStatus' = "verifying"
            /\ otaWire' = [otaWire EXCEPT ![c] =
                               Reported(ProgressCallback(@, got), "verifying", "50")]
            /\ otaPc' = [otaPc EXCEPT ![c] = "verify"]
            /\ UNCHANGED otaResult
    /\ UNCHANGED <<currentVersion, otaInfo, otaObserved, otaDlCalled, otaEntryFiles,
                   exeFile, backupFile, tempFile, versionFile, procAlive, otaRollback>>
    /\ UNCHANGED notOta

\* Mutant of VerifyOk: the digest is not compared.
VerifyAnything(data, info) == TRUE

\* SimpleDownloader.Verify: the MD5 of the data, in hex, equals info.Digest.
VerifyOk(data, info) == MD5Hex(data) = info.Digest

\* m.downloader.Verify: a mismatch fails the update with -3.
Verify(c) ==
    /\ procAlive
    /\ otaPc[c] = "verify"
    /\ IF VerifyOk(otaData[c], otaInfo[c])
       THEN /\ otaStatus' = "updating"
            /\ NotifyStatus(c, "updating", "75")
            /\ otaPc' = [otaPc EXCEPT ![c] = "prepare"]
            /\ UNCHANGED otaResult
       ELSE /\ otaStatus' = "failed"
            /\ NotifyStatus(c, "failed", "0")
            /\ Return(c, "-3")
    /\ UNCHANGED <<currentVersion, otaInfo, otaData, otaObserved, otaDlCalled,
                   otaEntryFiles, exeFile, backupFile, tempFile, versionFile, procAlive,
                   otaRollback>>
    /\ UNCHANGED notOta

\* BinaryUpdater.PrepareUpdate: remove the old backup, copy the executable to the
\* backup, write the data to {exe}.new; io names the step that fails, if any.
PrepareUpdate(c, io) ==
    /\ procAlive
    /\ otaPc[c] = "prepare"
    /\ backupFile' = IF io = "readExeFails" THEN "none" ELSE
                     IF io = "writeBackupFails" THEN "none" ELSE exeFile
    /\ tempFile' = IF io = "ok" THEN otaData[c] ELSE tempFile
    /\ IF io = "ok"
       THEN /\ otaPc' = [otaPc EXCEPT ![c] = "setVersion"]
            /\ UNCHANGED <<otaStatus, otaResult, otaWire>>
       ELSE /\ otaStatus' = "failed"
            /\ NotifyStatus(c, "failed", "0")
            /\ Return(c, "-4")
    /\ UNCHANGED <<currentVersion, otaInfo, otaData, otaObserved, otaDlCalled,
                   otaEntryFiles, exeFile, versionFile, procAlive, otaRollback>>
    /\ UNCHANGED notOta

\* versionProvider.SetVersion (a failure is only logged), the "Update prepared"
\* report with progress 100, then Restarting, whose notifyStatus reports nothing.
SetVersion(c, ok) ==
    /\ procAlive
    /\ otaPc[c] = "setVersion"
    /\ versionFile' = IF ok THEN otaInfo[c].Version ELSE versionFile
    /\ otaStatus' = "restarting"
    /\ otaWire' = [otaWire EXCEPT ![c] = Append(@, "100")]
    /\ otaPc' = [otaPc EXCEPT ![c] = "execute"]
    /\ UNCHANGED <<currentVersion, otaInfo, otaData, otaObserved, otaDlCalled, otaResult,
                   otaEntryFiles, exeFile, backupFile, tempFile, procAlive, otaRollback>>
    /\ UNCHANGED notOta

\* BinaryUpdater.ExecuteUpdate succeeds: the new image replaces the executable and
\* the process is replaced (exec on Unix, exit on Windows); it never returns.
ExecuteRestart(c) ==
    /\ procAlive
    /\ otaPc[c] = "execute"
    /\ exeFile' = tempFile
    /\ tempFile' = "none"
    /\ procAlive' = FALSE
    /\ UNCHANGED <<otaStatus, currentVersion, otaPc, otaInfo, otaData, otaObserved,
                   otaDlCalled, otaResult, otaEntryFiles, backupFile, versionFile,
                   otaWire, otaRollback>>
    /\ UNCHANGED notOta

\* BinaryUpdater.ExecuteUpdate fails (the executable may already be removed), then
\* Rollback restores the backup when one exists; PerformUpdate fails with -5.
ExecuteFails(c, removed, restored) ==
    /\ procAlive
    /\ otaPc[c] = "execute"
    /\ otaStatus' = "failed"
    /\ NotifyStatus(c, "failed", "0")
    /\ otaRollback' = [otaRollback EXCEPT ![c] = TRUE]
    /\ IF backupFile # "none"
       THEN /\ tempFile' = "none"
            /\ exeFile' = IF restored THEN backupFile
                          ELSE IF removed THEN "none" ELSE exeFile
       ELSE /\ exeFile' = IF removed THEN "none" ELSE exeFile
            /\ UNCHANGED tempFile
    /\ Return(c, "-5")
    /\ UNCHANGED <<currentVersion, otaInfo, otaData, otaObserved, otaDlCalled,
                   otaEntryFiles, backupFile, versionFile, procAlive>>
    /\ UNCHANGED notOta

\* ------------------------------------------------------------------------
\* OTA messages
\* ------------------------------------------------------------------------

\* The topics OTA messages arrive on: the firmware upgrade topic and the
\* configuration push topic of device A.b.
RecvTopics ==
    { <<"ota", "device", "upgrade", "A", "b">>,
      <<"sys", "A", "b", "thing", "config", "push">> }

\* The members of a message's "data" object: each absent or of the JSON type the
\* parser asserts (url, sign, version strings; size a number).
OtaData ==
    [url : {"absent", "https://host/fw"}, size : {"absent", "4k"},
     sign : {"absent", "0a"}, version : {"absent", "1.0.0", "1.0.1"}]

EmptyData == [url |-> "absent", size |-> "absent", sign |-> "absent", version |-> "absent"]

\* The payloads: not JSON; JSON without "data"; "data" that is not an object;
\* "data" an object, {} included.
OtaMessages ==
    {msg \in [syntaxOk : BOOLEAN, data : {"absent", "notObject", "object"}, members : OtaData] :
        /\ msg.data # "object" => msg.members = EmptyData
        /\ ~msg.syntaxOk => msg.data = "absent"}

NoTask == [URL |-> "nil", Size |-> "nil", ExpectDigest |-> "nil", Version |-> "nil"]

NoRecv == [recvType |-> "-", msg |-> [syntaxOk |-> FALSE, data |-> "absent", members |-> EmptyData],
           task |-> NoTask, outcome |-> "none"]

RecvInit ==
    /\ otaAutoUpdate = TRUE
    /\ otaRecv = NoRecv
    /\ otaSpawned = NoInfo

\* handleOTAMessage's topic test: topic[:20] == "/ota/device/upgrade/" with
\* something after it.
RecvTypeOf(topic) ==
    IF Len(topic) > 3 /\ SubSeq(topic, 1, 3) = <<"ota", "device", "upgrade">>
    THEN "FOTA" ELSE "COTA"

\* parseTaskDesc: nil when msg["data"] is not an object; else a task whose every
\* field keeps its zero value unless the member is present.
ParseTaskDesc(msg) ==
    IF msg.data # "object" THEN NoTask
    ELSE [URL |-> IF msg.members.url = "absent" THEN "" ELSE msg.members.url,
          Size |-> IF msg.members.size = "absent" THEN "0" ELSE msg.members.size,
          ExpectDigest |-> IF msg.members.sign = "absent" THEN "" ELSE msg.members.sign,
          Version |-> IF msg.members.version = "absent" THEN "" ELSE msg.members.version]

\* The receive handler's conversion of the task to an UpdateInfo.
InfoOf(task) == [Version |-> task.Version, Digest |-> task.ExpectDigest, Size |-> task.Size]

\* handleOTAMessage, with the receive handler setupHandlers installed: a payload
\* that is not JSON or yields no task is dropped; else the handler gets the task,
\* stops when the version is the current one, and spawns the auto-update
\* goroutine when auto-update is enabled.
HandleOTAMessage(topic, msg) ==
    LET task == IF msg.syntaxOk THEN ParseTaskDesc(msg) ELSE NoTask
        outcome == IF ~msg.syntaxOk THEN "unmarshal failed"
                   ELSE IF task = NoTask THEN "no task"
                   ELSE IF task.Version = currentVersion THEN "already on version"
                   ELSE IF otaAutoUpdate THEN "update spawned"
                   ELSE "handled"
    IN  /\ procAlive
        /\ otaRecv' = [recvType |-> RecvTypeOf(topic), msg |-> msg, task |-> task,
                       outcome |-> outcome]
        /\ otaSpawned' = IF outcome = "update spawned" THEN InfoOf(task) ELSE otaSpawned
        /\ UNCHANGED otaAutoUpdate
        /\ UNCHANGED otaVars
        /\ UNCHANGED notRecv

\* SetAutoUpdate(enabled).
SetAutoUpdate(enabled) ==
    /\ procAlive
    /\ otaAutoUpdate' = enabled
    /\ UNCHANGED <<otaRecv, otaSpawned>>
    /\ UNCHANGED otaVars
    /\ UNCHANGED notRecv

\* The auto-update goroutine of the last task (of each delivery of its message)
\* calls PerformUpdate.
AutoUpdate == otaSpawned # NoInfo /\ PerformUpdate("c1", otaSpawned)

OtaStep ==
    \/ \E c \in Callers : DownloadCall(c)
    \/ \E c \in Callers, got \in Images \cup {"error"} : DownloadReturn(c, got)
    \/ \E c \in Callers : Verify(c)
    \/ \E c \in Callers, io \in {"ok", "readExeFails", "writeBackupFails", "writeNewFails"} :
          PrepareUpdate(c, io)
    \/ \E c \in Callers, ok \in BOOLEAN : SetVersion(c, ok)
    \/ \E c \in Callers : ExecuteRestart(c)
    \/ \E c \in Callers, removed \in BOOLEAN, restored \in BOOLEAN :
          ExecuteFails(c, removed, restored)

RecvNext ==
    \/ \E topic \in RecvTopics, msg \in OtaMessages : HandleOTAMessage(topic, msg)
    \/ \E enabled \in BOOLEAN : SetAutoUpdate(enabled)
    \/ AutoUpdate
    \/ OtaStep

OtaNext ==
    \/ \E c \in Callers, info \in Infos : PerformUpdate(c, info)
    \/ \E c \in Callers : DownloadCall(c)
    \/ \E c \in Callers, got \in Images \cup {"error"} : DownloadReturn(c, got)
    \/ \E c \in Callers : Verify(c)
    \/ \E c \in Callers, io \in {"ok", "readExeFails", "writeBackupFails", "writeNewFails"} :
          PrepareUpdate(c, io)
    \/ \E c \in Callers, ok \in BOOLEAN : SetVersion(c, ok)
    \/ \E c \in Callers : ExecuteRestart(c)
    \/ \E c \in Callers, removed \in BOOLEAN, restored \in BOOLEAN :
          ExecuteFails(c, removed, restored)

\* ------------------------------------------------------------------------
\* RRPC client
\* ------------------------------------------------------------------------

\* How many request messages the broker delivers.
MaxRequests == 2

Slots == 1..MaxRequests

Methods == {"GetDeviceStatus"}

\* Payloads: syntaxOk says the bytes are valid JSON, idIsString that the value of
\* "id" is a JSON string (it decodes into RRPCRequest.ID), method is the value of
\* "method".
Payloads ==
    {p \in [syntaxOk : BOOLEAN, idIsString : BOOLEAN, method : Methods] :
        ~p.syntaxOk => ~p.idIsString}

\* A topic is the sequence of its levels. The client is device A/b.
RequestTopic(dn, id) == <<"sys", "A", dn, "rrpc", "request", id>>

ResponseTopic(requestId) == <<"sys", "A", "b", "rrpc", "response", requestId>>

\* The topics a message may arrive on: of this device or another, with a request
\* id or an empty last level.
Topics == {RequestTopic(dn, id) : dn \in {"b", "c"}, id \in {"R1", ""}}

NoRequest == [state |-> "none", topic |-> <<>>,
              payload |-> [syntaxOk |-> FALSE, idIsString |-> FALSE, method |-> "-"],
              exists |-> FALSE, outcome |-> "-", sent |-> FALSE]

RrpcInit ==
    /\ rrpcHandlers = {}
    /\ rrpcConnected = TRUE
    /\ rrpcAlive = TRUE
    /\ rrpcReq = [i \in Slots |-> NoRequest]
    /\ rrpcOut = <<>>

RegisterHandler(m) ==
    /\ rrpcAlive
    /\ rrpcHandlers' = rrpcHandlers \cup {m}
    /\ UNCHANGED <<rrpcConnected, rrpcAlive, rrpcReq, rrpcOut>>
    /\ UNCHANGED notRrpc

UnregisterHandler(m) ==
    /\ rrpcAlive
    /\ rrpcHandlers' = rrpcHandlers \ {m}
    /\ UNCHANGED <<rrpcConnected, rrpcAlive, rrpcReq, rrpcOut>>
    /\ UNCHANGED notRrpc

\* The session drops or comes back (connectionLostHandler, onConnectHandler).
ConnectionChange ==
    /\ rrpcAlive
    /\ rrpcConnected' = ~rrpcConnected
    /\ UNCHANGED <<rrpcHandlers, rrpcAlive, rrpcReq, rrpcOut>>
    /\ UNCHANGED notRrpc

\* extractRequestId: the submatch (.+) after /sys/{PK}/{DN}/rrpc/request/, or "".
ExtractRequestId(topic) ==
    IF Len(topic) = 6 /\ SubSeq(topic, 1, 5) = SubSeq(RequestTopic("b", ""), 1, 5)
       /\ topic[6] # ""
    THEN topic[6] ELSE ""

\* Mutant of UnmarshalOk: only the syntax is checked.
UnmarshalSyntaxOnly(payload) == payload.syntaxOk

\* json.Unmarshal(payload, &request) returns nil: valid JSON whose fields have
\* the types of RRPCRequest.
UnmarshalOk(payload) == payload.syntaxOk /\ payload.idIsString

\* sendResponse for message i: the response goes out unless Publish refuses it
\* (the session is not connected).
SendResponse(i, requestId, code) ==
    rrpcOut' = IF rrpcConnected
               THEN Append(rrpcOut, [req |-> i, topic |-> ResponseTopic(requestId), code |-> code])
               ELSE rrpcOut

\* handleRRPCRequest up to the handler call.
HandleRRPCRequest(i, topic, payload) ==
    /\ rrpcAlive
    /\ rrpcReq[i].state = "none"
    /\ \A j \in Slots : j < i => rrpcReq[j].state # "none"
    /\ LET requestId == ExtractRequestId(topic)
           exists == payload.method \in rrpcHandlers
           r == [NoRequest EXCEPT !.topic = topic, !.payload = payload, !.exists = exists]
       IN IF requestId = ""
          THEN /\ rrpcReq' = [rrpcReq EXCEPT ![i] = [r EXCEPT !.state = "ignored"]]
               /\ UNCHANGED rrpcOut
          ELSE IF ~UnmarshalOk(payload)
          THEN /\ SendResponse(i, requestId, 400)
               /\ rrpcReq' = [rrpcReq EXCEPT ![i] =
                                 [r EXCEPT !.state = "done", !.sent = rrpcConnected]]
          ELSE IF ~exists
          THEN /\ SendResponse(i, requestId, 404)
               /\ rrpcReq' = [rrpcReq EXCEPT ![i] =
                                 [r EXCEPT !.state = "done", !.sent = rrpcConnected]]
          ELSE /\ rrpcReq' = [rrpcReq EXCEPT ![i] =
                                 [r EXCEPT !.state = "running"]]
               /\ UNCHANGED rrpcOut
    /\ UNCHANGED <<rrpcHandlers, rrpcConnected, rrpcAlive>>
    /\ UNCHANGED notRrpc

\* The handler returns: sendErrorResponse(500) or sendSuccessResponse.
HandlerReturns(i, outcome) ==
    /\ rrpcAlive
    /\ rrpcReq[i].state = "running"
    /\ SendResponse(i, ExtractRequestId(rrpcReq[i].topic), IF outcome = "err" THEN 500 ELSE 200)
    /\ rrpcReq' = [rrpcReq EXCEPT ![i].state = "done", ![i].outcome = outcome,
                                  ![i].sent = rrpcConnected]
    /\ UNCHANGED <<rrpcHandlers, rrpcConnected, rrpcAlive>>
    /\ UNCHANGED notRrpc

\* The handler panics: nothing in the call chain recovers, the process ends.
HandlerPanics(i) ==
    /\ rrpcAlive
    /\ rrpcReq[i].state = "running"
    /\ rrpcAlive' = FALSE
    /\ rrpcReq' = [rrpcReq EXCEPT ![i].state = "panicked"]
    /\ UNCHANGED <<rrpcHandlers, rrpcConnected, rrpcOut>>
    /\ UNCHANGED notRrpc

RrpcNext ==
    \/ \E m \in Methods : RegisterHandler(m)
    \/ \E m \in Methods : UnregisterHandler(m)
    \/ ConnectionChange
    \/ \E i \in Slots, topic \in Topics, payload \in Payloads : HandleRRPCRequest(i, topic, payload)
    \/ \E i \in Slots, outcome \in {"ok", "err"} : HandlerReturns(i, outcome)
    \/ \E i \in Slots : HandlerPanics(i)

\* ------------------------------------------------------------------------
\* Version store
\* ------------------------------------------------------------------------

\* The arguments of SetVersion and SetModule.
SetVersions == {"2.0.0", ""}

SetModules == {"x86", ""}

AbsentFile == [fmt |-> "absent", version |-> "-", module |-> "-", padded |-> FALSE]

\* The version file before the first provider: absent; one line of plain text,
\* with or without white space around it; a JSON object with version and module,
\* or with version only.
InitialFiles ==
    {AbsentFile}
    \cup [fmt : {"text"}, version : {"1.5.0"}, module : {"-"}, padded : BOOLEAN]
    \cup [fmt : {"json"}, version : {"1.0.1"}, module : {"arm64", ""}, padded : {FALSE}]

\* strings.TrimSpace of a text file's content: the line without the white space.
TrimSpace(file) == file.version

\* load: the defaults when the file cannot be read; the object when the content
\* unmarshals as one; else the trimmed text with the default module.
Load(file) ==
    CASE file.fmt = "absent" -> [Version |-> "1.0.0", Module |-> "default"]
      [] file.fmt = "json" -> [Version |-> file.version, Module |-> file.module]
      [] file.fmt = "text" -> [Version |-> TrimSpace(file), Module |-> "default"]

\* save that writes the version alone, as the old format did.
SavePlainText(cache) ==
    [fmt |-> "text", version |-> cache.Version, module |-> "-", padded |-> FALSE]

\* save: json.MarshalIndent of the cache.
Save(cache) ==
    [fmt |-> "json", version |-> cache.Version, module |-> cache.Module, padded |-> FALSE]

GetVersion(cache) == cache.Version

GetModule(cache) == IF cache.Module = "" THEN "default" ELSE cache.Module

VersionInit ==
    /\ vfInitial \in InitialFiles
    /\ vfFile = vfInitial
    /\ vfCache = Load(vfInitial)
    /\ vfLast = [version |-> "unset", module |-> "unset"]
    /\ vfAllOk = TRUE
    /\ vfFresh = TRUE

\* NewFileVersionProvider on the same file.
NewFileVersionProvider ==
    /\ vfCache' = Load(vfFile)
    /\ vfFresh' = TRUE
    /\ UNCHANGED <<vfInitial, vfFile, vfLast, vfAllOk>>
    /\ UNCHANGED notVer

\* SetVersion(version): the cache is updated, then saved; ok is whether MkdirAll
\* and WriteFile succeeded, the file staying as it was when they did not.
FileSetVersion(version, ok) ==
    LET cache == [vfCache EXCEPT !.Version = version]
    IN  /\ vfCache' = cache
        /\ vfFile' = IF ok THEN Save(cache) ELSE vfFile
        /\ vfLast' = [vfLast EXCEPT !.version = version]
        /\ vfAllOk' = (vfAllOk /\ ok)
        /\ vfFresh' = FALSE
        /\ UNCHANGED vfInitial
        /\ UNCHANGED notVer

\* SetModule(module), likewise.
FileSetModule(module, ok) ==
    LET cache == [vfCache EXCEPT !.Module = module]
    IN  /\ vfCache' = cache
        /\ vfFile' = IF ok THEN Save(cache) ELSE vfFile
        /\ vfLast' = [vfLast EXCEPT !.module = module]
        /\ vfAllOk' = (vfAllOk /\ ok)
        /\ vfFresh' = FALSE
        /\ UNCHANGED vfInitial
        /\ UNCHANGED notVer

VersionNext ==
    \/ NewFileVersionProvider
    \/ \E version \in SetVersions, ok \in BOOLEAN : FileSetVersion(version, ok)
    \/ \E module \in SetModules, ok \in BOOLEAN : FileSetModule(module, ok)

\* ------------------------------------------------------------------------
\* Property set
\* ------------------------------------------------------------------------

PropNames == {"temp", "mode"}

PropValues == {"on", "off"}

PropIds == {"1", "2"}

\* The params objects of property-set messages: values for some of the names.
PropParams == UNION {[S -> PropValues] : S \in SUBSET PropNames}

NoParams == [n \in {} |-> "on"]

\* The payloads: not JSON; JSON whose id is not a string or whose params is not an
\* object; {id, params}.
PropPayloads ==
    {pl \in [syntaxOk : BOOLEAN, fieldsOk : BOOLEAN, id : PropIds, params : PropParams] :
        ~(pl.syntaxOk /\ pl.fieldsOk) => (pl.id = "1" /\ pl.params = NoParams /\ (~pl.syntaxOk => ~pl.fieldsOk))}

\* json.Unmarshal into struct {ID string; Params map[string]interface{}}.
PropUnmarshalOk(pl) == pl.syntaxOk /\ pl.fieldsOk

NoPropMsg ==
    [payload |-> [syntaxOk |-> FALSE, fieldsOk |-> FALSE, id |-> "1", params |-> NoParams],
     state |-> "none", emitted |-> {}, emitErr |-> FALSE, touched |-> {}, readOnly |-> {}]

PropInit ==
    /\ fwProps = [n \in PropNames |-> "none"]
    /\ propConnected = TRUE
    /\ propPc = "idle"
    /\ propMsg = NoPropMsg
    /\ propTodo = {}
    /\ propLog = <<>>

PropEntry(ev, name, value) == [ev |-> ev, name |-> name, value |-> value]

\* RegisterProperty(name, getter, setter): mode "rw" with a setter, else "r".
RegisterProperty(name, hasSetter) ==
    /\ fwProps' = [fwProps EXCEPT ![name] = IF hasSetter THEN "rw" ELSE "r"]
    /\ propMsg' = [propMsg EXCEPT !.touched = @ \cup {name}]
    /\ UNCHANGED <<propConnected, propPc, propTodo, propLog>>
    /\ UNCHANGED notProp

\* The session of the plugin's client is lost or re-established.
PropConnectionChange ==
    /\ propConnected' = ~propConnected
    /\ UNCHANGED <<fwProps, propPc, propMsg, propTodo, propLog>>
    /\ UNCHANGED notProp

\* A setter that is never found.
WritableNever(mode) == FALSE

\* "exists && handler.setter != nil".
Writable(mode) == mode = "rw"

\* handlePropertySet up to Emit: a payload that does not unmarshal is dropped;
\* else property.set is published with msg.Params and the framework's handler,
\* subscribed sync, starts its loop over the params.
HandlePropertySet(pl) ==
    /\ propPc = "idle"
    /\ propConnected
    /\ propLog' = <<>>
    /\ IF PropUnmarshalOk(pl)
       THEN /\ propMsg' = [NoPropMsg EXCEPT !.payload = pl, !.state = "handling",
                                            !.emitted = {pl.params}]
            /\ propTodo' = DOMAIN pl.params
            /\ propPc' = IF DOMAIN pl.params = {} THEN "reply" ELSE "handler"
       ELSE /\ propMsg' = [NoPropMsg EXCEPT !.payload = pl, !.state = "dropped"]
            /\ propTodo' = {}
            /\ propPc' = "idle"
    /\ UNCHANGED <<fwProps, propConnected>>
    /\ UNCHANGED notProp

\* One round of the handler's loop, the names coming in map order: the setter is
\* called when the property has one (its error is only logged), then every
\* device's OnPropertySet. A panic of the setter or of a device ends the handler
\* in executeHandler's recover, and Emit returns the error.
PropertySetVisit(name, outcome) ==
    /\ propPc = "handler"
    /\ name \in propTodo
    /\ outcome \in {"setterError", "setterPanic"} => Writable(fwProps[name])
    /\ outcome = "devicePanic" => devices # {}
    /\ LET value == propMsg.payload.params[name]
           afterSetter == IF Writable(fwProps[name])
                          THEN Append(propLog, PropEntry("setter", name, value))
                          ELSE propLog
           aborted == outcome \in {"setterPanic", "devicePanic"}
       IN /\ propLog' = IF outcome = "setterPanic" \/ devices = {} THEN afterSetter
                        ELSE Append(afterSetter, PropEntry("OnPropertySet", name, value))
          /\ propTodo' = propTodo \ {name}
          /\ propMsg' = [propMsg EXCEPT !.emitErr = aborted,
                                        !.readOnly = IF fwProps[name] = "r" THEN @ \cup {name} ELSE @]
          /\ propPc' = IF aborted \/ propTodo = {name} THEN "reply" ELSE "handler"
    /\ UNCHANGED <<fwProps, propConnected>>
    /\ UNCHANGED notProp

\* handlePropertySet after Emit, whose error is only logged: the reply
\* {id, code: 200, data: {}} is published; Publish refuses when the client is
\* not connected, which is only logged.
PropertySetReply ==
    /\ propPc = "reply"
    /\ propLog' = IF propConnected
                  THEN Append(propLog, PropEntry("reply", propMsg.payload.id, "200"))
                  ELSE propLog
    /\ propMsg' = [propMsg EXCEPT !.state = IF propConnected THEN "replied" ELSE "reply failed"]
    /\ propPc' = "idle"
    /\ UNCHANGED <<fwProps, propConnected, propTodo>>
    /\ UNCHANGED notProp

PropNext ==
    \/ \E name \in PropNames, hasSetter \in BOOLEAN : RegisterProperty(name, hasSetter)
    \/ \E d \in LifeDevices : RegisterDevice(d)
    \/ PropConnectionChange
    \/ \E pl \in PropPayloads : HandlePropertySet(pl)
    \/ \E name \in PropNames, outcome \in {"ok", "setterError", "setterPanic", "devicePanic"} :
          PropertySetVisit(name, outcome)
    \/ PropertySetReply

\* ------------------------------------------------------------------------
\* Service call
\* ------------------------------------------------------------------------

SvcNames == {"reboot", "reset"}

SvcIds == {"7", "8"}

\* The service.call events: Data is a ServiceRequest {ID, Service} or something
\* else.
ServiceRequests ==
    {r \in [typed : BOOLEAN, id : SvcIds, service : SvcNames] :
        ~r.typed => (r.id = "7" /\ r.service = "reboot")}

NoSvcReq == [typed |-> FALSE, id |-> "7", service |-> "reboot", returned |-> "none"]

SvcInit ==
    /\ fwServices = {}
    /\ svcPc = "idle"
    /\ svcReq = NoSvcReq
    /\ svcTodo = {}
    /\ svcLog = <<>>

SvcEntry(ev, who, id, value) == [ev |-> ev, who |-> who, id |-> id, value |-> value]

\* RegisterService(name, handler).
RegisterService(name) ==
    /\ fwServices' = fwServices \cup {name}
    /\ UNCHANGED <<svcPc, svcReq, svcTodo, svcLog>>
    /\ UNCHANGED notSvc

\* A response built without the request's ID.
HandlerResponseNoId(req, outcome) ==
    SvcEntry("response", "framework", "", IF outcome = "error" THEN "-1" ELSE "0")

\* resp := ServiceResponse{ID: req.ID}; Code -1 with the error, else Code 0 with
\* the result.
HandlerResponse(req, outcome) ==
    SvcEntry("response", "framework", req.id, IF outcome = "error" THEN "-1" ELSE "0")

\* The service.call handler, run by Publish: data that is no ServiceRequest is an
\* error; a registered handler is called and its result or error emitted as
\* service.response (a panic of it ends in executeHandler's recover, nothing is
\* emitted); with no handler the devices are copied and tried next.
ServiceCall(req, outcome) ==
    /\ svcPc = "idle"
    /\ svcTodo' = IF req.typed /\ req.service \notin fwServices THEN devices ELSE {}
    /\ IF ~req.typed
       THEN /\ svcReq' = [req EXCEPT !.returned = "invalid service request"]
            /\ svcLog' = <<>>
            /\ svcPc' = "idle"
       ELSE IF req.service \in fwServices
       THEN /\ svcLog' = IF outcome = "panic"
                         THEN <<SvcEntry("handler", req.service, req.id, outcome)>>
                         ELSE <<SvcEntry("handler", req.service, req.id, outcome),
                                HandlerResponse(req, outcome)>>
            /\ svcReq' = [req EXCEPT !.returned = IF outcome = "panic" THEN "panic" ELSE "nil"]
            /\ svcPc' = "idle"
       ELSE /\ svcLog' = <<>>
            /\ svcReq' = [req EXCEPT !.returned = IF devices = {} THEN "not found" ELSE "none"]
            /\ svcPc' = IF devices = {} THEN "idle" ELSE "devices"
    /\ UNCHANGED fwServices
    /\ UNCHANGED notSvc

\* One round of "for _, device := range devices": OnServiceInvoke(req); without
\* error the device's response is emitted and the handler returns nil; with an
\* error the next device is tried, and after the last one "service not found" is
\* returned; a panic ends the handler.
ServiceTryDevice(d, outcome, respId) ==
    /\ svcPc = "devices"
    /\ d \in svcTodo
    /\ svcTodo' = svcTodo \ {d}
    /\ svcLog' = IF outcome = "ok"
                 THEN svcLog \o <<SvcEntry("OnServiceInvoke", d, svcReq.id, outcome),
                                  SvcEntry("response", d, respId, "0")>>
                 ELSE Append(svcLog, SvcEntry("OnServiceInvoke", d, svcReq.id, outcome))
    /\ svcReq' = [svcReq EXCEPT !.returned =
                     CASE outcome = "ok" -> "nil"
                       [] outcome = "panic" -> "panic"
                       [] OTHER -> IF svcTodo = {d} THEN "not found" ELSE "none"]
    /\ svcPc' = IF outcome = "error" /\ svcTodo # {d} THEN "devices" ELSE "idle"
    /\ UNCHANGED fwServices
    /\ UNCHANGED notSvc

SvcNext ==
    \/ \E name \in SvcNames : RegisterService(name)
    \/ \E d \in Devices : RegisterDevice(d)
    \/ \E req \in ServiceRequests, outcome \in {"result", "error", "panic"} :
          ServiceCall(req @@ [returned |-> "none"], outcome)
    \/ \E d \in Devices, outcome \in {"ok", "error", "panic"}, respId \in SvcIds :
          ServiceTryDevice(d, outcome, respId)

\* ------------------------------------------------------------------------
\* Connection
\* ------------------------------------------------------------------------

\* The filters MQTTPlugin.subscribeToTopics subscribes.
PluginFilters ==
    { <<"$SYS", "A", "b", "property", "set">>,
      <<"$SYS", "A", "b", "service", "+", "invoke">> }

\* PluginFilters and a filter the application subscribes.
ConnFilters == PluginFilters \cup { <<"ota", "device", "upgrade", "A", "b">> }

ConnInit ==
    /\ connPlugin = "loaded"
    /\ connClean = TRUE
    /\ connLink = "none"
    /\ connFlag = FALSE
    /\ connState = "Disconnected"
    /\ connStored = {}
    /\ connBroker = {}
    /\ connEvents = <<>>
    /\ connReconnected = FALSE

\* Client.IsConnected: c.connected && c.mqttClient.IsConnected().
IsConnected == connFlag /\ connLink = "up"

\* The framework's handlers of system.connected and system.disconnected.
StateAfter(eventType) ==
    IF eventType = "system.connected" THEN "Connected" ELSE "Disconnected"

\* MQTTPlugin.Start: Connect with the configured CleanSession; a failure is
\* returned. Else the topics are subscribed, each SUBSCRIBE succeeding or not
\* (a failure is only logged), and system.connected is emitted, which the
\* framework's handler turns into StateConnected.
PluginStart(clean, connectOk, subscribed) ==
    /\ connPlugin = "loaded"
    /\ connClean' = clean
    /\ IF ~connectOk
       THEN /\ connPlugin' = "start failed"
            /\ UNCHANGED <<connLink, connFlag, connState, connStored, connBroker, connEvents>>
       ELSE /\ connPlugin' = "started"
            /\ connLink' = "up"
            /\ connFlag' = TRUE
            /\ connStored' = subscribed
            /\ connBroker' = subscribed
            /\ connEvents' = Append(connEvents, "system.connected")
            /\ connState' = StateAfter("system.connected")
    /\ UNCHANGED connReconnected
    /\ UNCHANGED notConn

\* The library finds the session lost and calls connectionLostHandler, which
\* clears c.connected and logs. A broker drops the subscriptions of a clean
\* session with the connection.
ConnectionLost ==
    /\ connLink = "up"
    /\ connLink' = "lost"
    /\ connFlag' = FALSE
    /\ connBroker' = IF connClean THEN {} ELSE connBroker
    /\ UNCHANGED <<connPlugin, connClean, connState, connStored, connEvents, connReconnected>>
    /\ UNCHANGED notConn

\* AutoReconnect re-establishes the session and the library calls
\* onConnectHandler, which sets c.connected and logs: nothing is subscribed and
\* no event is emitted.
Reconnected ==
    /\ connLink = "lost"
    /\ connLink' = "up"
    /\ connFlag' = TRUE
    /\ connReconnected' = TRUE
    /\ UNCHANGED <<connPlugin, connClean, connState, connStored, connBroker, connEvents>>
    /\ UNCHANGED notConn

\* Client.Subscribe seen from the broker: refused when not connected; else the
\* filter is stored and subscribed, and removed from the table when the
\* SUBSCRIBE fails.
ConnSubscribe(filter, ok) ==
    /\ connPlugin = "started"
    /\ IF ~IsConnected
       THEN UNCHANGED <<connStored, connBroker>>
       ELSE /\ connStored' = IF ok THEN connStored \cup {filter} ELSE connStored \ {filter}
            /\ connBroker' = IF ok THEN connBroker \cup {filter} ELSE connBroker
    /\ UNCHANGED <<connPlugin, connClean, connLink, connFlag, connState, connEvents,
                   connReconnected>>
    /\ UNCHANGED notConn

\* Client.Unsubscribe seen from the broker: refused when not connected; the
\* filter is deleted from the table unless the UNSUBSCRIBE fails.
ConnUnsubscribe(filter, ok) ==
    /\ connPlugin = "started"
    /\ IF IsConnected /\ ok
       THEN /\ connStored' = connStored \ {filter}
            /\ connBroker' = connBroker \ {filter}
       ELSE UNCHANGED <<connStored, connBroker>>
    /\ UNCHANGED <<connPlugin, connClean, connLink, connFlag, connState, connEvents,
                   connReconnected>>
    /\ UNCHANGED notConn

\* MQTTPlugin.Stop: system.disconnected is emitted, which the framework's handler
\* turns into StateDisconnected; Client.Disconnect ends the session when
\* c.connected is set, and does nothing when it is not.
PluginStop ==
    /\ connPlugin = "started"
    /\ connPlugin' = "stopped"
    /\ connEvents' = Append(connEvents, "system.disconnected")
    /\ connState' = StateAfter("system.disconnected")
    /\ IF connFlag
       THEN /\ connLink' = "none"
            /\ connFlag' = FALSE
            /\ connBroker' = IF connClean THEN {} ELSE connBroker
       ELSE UNCHANGED <<connLink, connFlag, connBroker>>
    /\ UNCHANGED <<connClean, connStored, connReconnected>>
    /\ UNCHANGED notConn

ConnNext ==
    \/ \E clean \in BOOLEAN, connectOk \in BOOLEAN, subscribed \in SUBSET PluginFilters :
          PluginStart(clean, connectOk, subscribed)
    \/ ConnectionLost
    \/ Reconnected
    \/ \E f \in ConnFilters, ok \in BOOLEAN : ConnSubscribe(f, ok)
    \/ \E f \in ConnFilters, ok \in BOOLEAN : ConnUnsubscribe(f, ok)
    \/ PluginStop

\* ------------------------------------------------------------------------
\* Handler order
\* ------------------------------------------------------------------------

\* The most handlers subscribed to the event type.
MaxSorted == 13

\* The priorities handlers are subscribed with.
Priorities == {5, 10}

\* sort.Slice sorts a slice of up to 12 elements by insertion (Go 1.21).
MaxInsertion == 12

SortInit ==
    /\ sortSubs = <<>>
    /\ sortInvoked = <<>>

\* The comparison SubscribeWithPriority gives to sort.Slice.
Less(x, y) == x.Priority > y.Priority

IsSorted(s) == \A i \in 2..Len(s) : ~Less(s[i], s[i - 1])

Swap(s, i, j) == [s EXCEPT ![i] = s[j], ![j] = s[i]]

RECURSIVE InsertSorted(_, _)
\* One round of the insertion sort: x moves left past every element it is less
\* than.
InsertSorted(s, x) ==
    IF s = <<>> THEN <<x>>
    ELSE IF Less(x, s[Len(s)])
         THEN Append(InsertSorted(SubSeq(s, 1, Len(s) - 1), x), s[Len(s)])
         ELSE Append(s, x)

RECURSIVE InsertionSort(_)
InsertionSort(s) ==
    IF s = <<>> THEN <<>>
    ELSE InsertSorted(InsertionSort(SubSeq(s, 1, Len(s) - 1)), s[Len(s)])

\* The pivot chosen for a slice of 8 to 49 elements whose elements at the three
\* quarters are in order: the middle one.
PivotIndex(s) == 1 + (Len(s) \div 4) * 2

RECURSIVE ScanUp(_, _, _)
ScanUp(s, i, j) == IF i <= j /\ Less(s[i], s[1]) THEN ScanUp(s, i + 1, j) ELSE i

RECURSIVE ScanDown(_, _, _)
ScanDown(s, i, j) == IF i <= j /\ ~Less(s[j], s[1]) THEN ScanDown(s, i, j - 1) ELSE j

RECURSIVE PartitionLoop(_, _, _)
\* The partition around the pivot, which stands first: the two indexes move
\* towards each other and exchange the elements they stop at; at the end the
\* pivot is exchanged into its place, mid.
PartitionLoop(s, i, j) ==
    LET up == ScanUp(s, i, j)
        down == ScanDown(s, up, j)
    IN IF up > down
       THEN [seq |-> Swap(s, down, 1), mid |-> down]
       ELSE PartitionLoop(Swap(s, up, down), up + 1, down - 1)

\* sort.Slice on the handler list after an append, the list sorted but for its
\* last element: up to 12 elements are sorted by insertion; a longer list that is
\* in order is left alone, else it is partitioned around the pivot and each part,
\* of at most 12 elements, is sorted by insertion.
SortSlice(s) ==
    IF Len(s) <= MaxInsertion THEN InsertionSort(s)
    ELSE IF IsSorted(s) THEN s
    ELSE LET part == PartitionLoop(Swap(s, 1, PivotIndex(s)), 2, Len(s))
         IN InsertionSort(SubSeq(part.seq, 1, part.mid - 1))
            \o <<part.seq[part.mid]>>
            \o InsertionSort(SubSeq(part.seq, part.mid + 1, Len(s)))

\* SubscribeWithPriority(t, handler, priority, async): append, then sort.
SortSubscribe(priority) ==
    /\ Len(sortSubs) < MaxSorted
    /\ sortSubs' = SortSlice(Append(sortSubs, [id |-> Len(sortSubs) + 1, Priority |-> priority]))
    /\ UNCHANGED sortInvoked
    /\ UNCHANGED notSort

\* Publish(t) with sync handlers: they are invoked in the order of the list.
SortPublish ==
    /\ sortSubs # <<>>
    /\ sortInvoked' = [i \in DOMAIN sortSubs |-> sortSubs[i].id]
    /\ UNCHANGED sortSubs
    /\ UNCHANGED notSort

SortNext ==
    \/ \E priority \in Priorities : SortSubscribe(priority)
    \/ SortPublish

\* ------------------------------------------------------------------------
\* Locks
\* ------------------------------------------------------------------------

NoCall == [op |-> "none", cb |-> "none", dev |-> "none"]

LockInit ==
    /\ pmWriter = FALSE
    /\ otaMu = "none"
    /\ otaCached = FALSE
    /\ otaManagers = {}
    /\ regPc = [d \in Devices |-> "idle"]
    /\ lockStopPc = "idle"
    /\ tblDevices = {}
    /\ tblWriter = "none"
    /\ tblCall = NoCall
    /\ tblBlocked = FALSE

otaLockVars == <<pmWriter, otaMu, otaCached, otaManagers, regPc, lockStopPc>>

tblVars == <<tblDevices, tblWriter, tblCall, tblBlocked>>

\* SetMQTTClient(client): under p.mu, the client is cached.
SetMQTTClient ==
    /\ otaMu = "none"
    /\ ~otaCached
    /\ otaCached' = TRUE
    /\ UNCHANGED <<pmWriter, otaMu, otaManagers, regPc, lockStopPc>>
    /\ UNCHANGED tblVars
    /\ UNCHANGED notLock

\* The goroutine of the device.registered handler calls RegisterDevice ->
\* createManagerForDevice -> getMQTTClient, which takes p.mu: a cached client is
\* returned and p.mu released; else p.mu is kept for framework.GetPlugin.
GetMQTTClientLock(d) ==
    /\ regPc[d] \in {"idle", "failed"}
    /\ otaMu = "none"
    /\ IF otaCached
       THEN /\ regPc' = [regPc EXCEPT ![d] = "gotClient"]
            /\ UNCHANGED otaMu
       ELSE /\ regPc' = [regPc EXCEPT ![d] = "getPlugin"]
            /\ otaMu' = d
    /\ UNCHANGED <<pmWriter, otaCached, otaManagers, lockStopPc>>
    /\ UNCHANGED tblVars
    /\ UNCHANGED notLock

\* getMQTTClient, the rest, still holding p.mu: framework.GetPlugin("mqtt")
\* takes pluginsMutex for reading inside Manager.Get; the plugin gives a client
\* or not; the deferred Unlock releases p.mu on return.
GetMQTTClientGetPlugin(d, found) ==
    /\ regPc[d] = "getPlugin"
    /\ otaMu = d
    /\ ~pmWriter
    /\ otaCached' = found
    /\ otaMu' = "none"
    /\ regPc' = [regPc EXCEPT ![d] = IF found THEN "gotClient" ELSE "failed"]
    /\ UNCHANGED <<pmWriter, otaManagers, lockStopPc>>
    /\ UNCHANGED tblVars
    /\ UNCHANGED notLock

\* createManagerForDevice, after getMQTTClient: under p.mu the manager is
\* created, started and stored.
CreateManager(d) ==
    /\ regPc[d] = "gotClient"
    /\ otaMu = "none"
    /\ otaManagers' = otaManagers \cup {d}
    /\ regPc' = [regPc EXCEPT ![d] = "done"]
    /\ UNCHANGED <<pmWriter, otaMu, otaCached, lockStopPc>>
    /\ UNCHANGED tblVars
    /\ UNCHANGED notLock

\* Framework.Stop calls StopAll, which takes pluginsMutex for writing and keeps
\* it until it returns.
StopAllLock ==
    /\ lockStopPc = "idle"
    /\ lockStopPc' = "ota"
    /\ pmWriter' = TRUE
    /\ UNCHANGED <<otaMu, otaCached, otaManagers, regPc>>
    /\ UNCHANGED tblVars
    /\ UNCHANGED notLock

\* StopAll calls OTAPlugin.Stop, the plugin nothing depends on: GetStatus takes
\* p.mu for reading, then p.mu is taken for writing, the managers are stopped
\* and the map replaced.
OTAPluginStop ==
    /\ lockStopPc = "ota"
    /\ otaMu = "none"
    /\ otaManagers' = {}
    /\ lockStopPc' = "mqtt"
    /\ UNCHANGED <<pmWriter, otaMu, otaCached, regPc>>
    /\ UNCHANGED tblVars
    /\ UNCHANGED notLock

\* StopAll stops the MQTT plugin and returns, releasing pluginsMutex.
StopAllUnlock ==
    /\ lockStopPc = "mqtt"
    /\ lockStopPc' = "returned"
    /\ pmWriter' = FALSE
    /\ UNCHANGED <<otaMu, otaCached, otaManagers, regPc>>
    /\ UNCHANGED tblVars
    /\ UNCHANGED notLock

\* IoTFramework.RegisterDevice: devicesMutex is taken for writing, the device
\* stored, the lock released; no callback is called by the caller.
TblRegisterDevice(d) ==
    /\ tblWriter = "none"
    /\ d \notin tblDevices
    /\ tblDevices' = tblDevices \cup {d}
    /\ UNCHANGED <<tblWriter, tblCall, tblBlocked>>
    /\ UNCHANGED otaLockVars
    /\ UNCHANGED notLock

\* IoTFramework.UnregisterDevice up to the callback: devicesMutex is taken for
\* writing, with a deferred Unlock, the device looked up and its OnDestroy
\* called.
UnregisterDeviceCall(d) ==
    /\ tblWriter = "none"
    /\ tblCall = NoCall
    /\ d \in tblDevices
    /\ tblWriter' = d
    /\ tblCall' = [op |-> "UnregisterDevice", cb |-> "OnDestroy", dev |-> d]
    /\ UNCHANGED <<tblDevices, tblBlocked>>
    /\ UNCHANGED otaLockVars
    /\ UNCHANGED notLock

\* The callbacks the framework makes on a copy of the device table, taken under
\* the read lock and released first: OnInitialize in Start, OnDestroy in Stop,
\* OnPropertySet and OnServiceInvoke in the internal event handlers.
CopyCallbacks ==
    { [op |-> "Start", cb |-> "OnInitialize"],
      [op |-> "Stop", cb |-> "OnDestroy"],
      [op |-> "property.set", cb |-> "OnPropertySet"],
      [op |-> "service.call", cb |-> "OnServiceInvoke"] }

CallbackOnCopy(c, d) ==
    /\ tblCall = NoCall
    /\ tblWriter = "none"
    /\ d \in tblDevices
    /\ tblCall' = [op |-> c.op, cb |-> c.cb, dev |-> d]
    /\ UNCHANGED <<tblDevices, tblWriter, tblBlocked>>
    /\ UNCHANGED otaLockVars
    /\ UNCHANGED notLock

\* The running callback calls GetDevice (read lock) or RegisterDevice (write
\* lock) of the framework: it waits for as long as a write lock is held.
CallbackCallsFramework(api, d) ==
    /\ tblCall # NoCall
    /\ ~tblBlocked
    /\ IF tblWriter # "none"
       THEN /\ tblBlocked' = TRUE
            /\ UNCHANGED tblDevices
       ELSE /\ tblDevices' = IF api = "RegisterDevice" THEN tblDevices \cup {d} ELSE tblDevices
            /\ UNCHANGED tblBlocked
    /\ UNCHANGED <<tblWriter, tblCall>>
    /\ UNCHANGED otaLockVars
    /\ UNCHANGED notLock

\* The callback returns; UnregisterDevice then deletes the device and its
\* deferred Unlock runs.
CallbackReturns ==
    /\ tblCall # NoCall
    /\ ~tblBlocked
    /\ tblCall' = NoCall
    /\ tblDevices' = IF tblCall.op = "UnregisterDevice" THEN tblDevices \ {tblCall.dev}
                     ELSE tblDevices
    /\ tblWriter' = "none"
    /\ UNCHANGED tblBlocked
    /\ UNCHANGED otaLockVars
    /\ UNCHANGED notLock

LockNext ==
    \/ SetMQTTClient
    \/ \E d \in Devices : GetMQTTClientLock(d)
    \/ \E d \in Devices, found \in BOOLEAN : GetMQTTClientGetPlugin(d, found)
    \/ \E d \in Devices : CreateManager(d)
    \/ StopAllLock
    \/ OTAPluginStop
    \/ StopAllUnlock
    \/ \E d \in Devices : TblRegisterDevice(d)
    \/ \E d \in Devices : UnregisterDeviceCall(d)
    \/ \E c \in CopyCallbacks, d \in Devices : CallbackOnCopy(c, d)
    \/ \E api \in {"GetDevice", "RegisterDevice"}, d \in Devices : CallbackCallsFramework(api, d)
    \/ CallbackReturns

\* ------------------------------------------------------------------------
\* Device callbacks
\* ------------------------------------------------------------------------

\* The most callbacks followed on one device.
MaxCallbacks == 3

\* The messages the MQTT plugin turns into events for the framework's handlers.
Incoming == {"property.set", "service.call"}

\* The framework is Started, the MQTT plugin running, no device registered yet.
CbInit ==
    /\ cbDevices = {}
    /\ cbPc = "none"
    /\ cbSnapshot = {}
    /\ cbMqtt = TRUE
    /\ cbGo = {}
    /\ cbLog = [d \in Devices |-> <<>>]

\* A callback handed to a goroutine of its own.
Go(d, cb) == [dev |-> d, cb |-> cb]

\* The callback cb is invoked on device d.
Invoke(log, d, cb) == [log EXCEPT ![d] = Append(log[d], cb)]

\* RegisterDevice: the device is stored; "go OnInitialize" only while the state
\* is Started, i.e. before a Stop call has set Stopping.
CbRegisterDevice(d) ==
    /\ d \notin cbDevices
    /\ cbDevices' = cbDevices \cup {d}
    /\ cbGo' = IF cbPc = "none" THEN cbGo \cup {Go(d, "OnInitialize")} ELSE cbGo
    /\ UNCHANGED <<cbPc, cbSnapshot, cbMqtt, cbLog>>
    /\ UNCHANGED notCb

\* A goroutine started with "go device.OnInitialize" or "go device.OnDisconnect"
\* runs; the framework waits for none of them.
GoroutineRuns(g) ==
    /\ g \in cbGo
    /\ cbGo' = cbGo \ {g}
    /\ cbLog' = Invoke(cbLog, g.dev, g.cb)
    /\ UNCHANGED <<cbDevices, cbPc, cbSnapshot, cbMqtt>>
    /\ UNCHANGED notCb

\* The framework's property.set handler: OnPropertySet on every registered device.
NotifyPropertySet ==
    [d \in Devices |-> IF d \in cbDevices THEN Append(cbLog[d], "OnPropertySet") ELSE cbLog[d]]

\* The framework's service.call handler without a registered service:
\* OnServiceInvoke on the registered devices, beginning with `first`.
NotifyServiceCall(first) == Invoke(cbLog, first, "OnServiceInvoke")

\* The running MQTT plugin receives a message and emits its event; the handler
\* runs inside Emit.
EventFromMessage(kind, first) ==
    /\ cbMqtt
    /\ cbPc # "done"
    /\ first \in cbDevices
    /\ \A d \in cbDevices : Len(cbLog[d]) < MaxCallbacks
    /\ cbLog' = IF kind = "property.set" THEN NotifyPropertySet ELSE NotifyServiceCall(first)
    /\ UNCHANGED <<cbDevices, cbPc, cbSnapshot, cbMqtt, cbGo>>
    /\ UNCHANGED notCb

\* Stop on a Started framework: the state becomes Stopping and the device table
\* is copied under the read lock.
CbStopBegin ==
    /\ cbPc = "none"
    /\ cbPc' = "devices"
    /\ cbSnapshot' = cbDevices
    /\ UNCHANGED <<cbDevices, cbMqtt, cbGo, cbLog>>
    /\ UNCHANGED notCb

\* One iteration of Stop's loop: OnDestroy on a device of the copy. The device
\* stays in the table.
CbOnDestroy(d) ==
    /\ cbPc = "devices"
    /\ d \in cbSnapshot
    /\ ~ \E i \in DOMAIN cbLog[d] : cbLog[d][i] = "OnDestroy"
    /\ cbLog' = Invoke(cbLog, d, "OnDestroy")
    /\ UNCHANGED <<cbDevices, cbPc, cbSnapshot, cbMqtt, cbGo>>
    /\ UNCHANGED notCb

\* The framework's system.disconnected handler: "go device.OnDisconnect" for
\* every device of the table.
DisconnectedHandler == {Go(d, "OnDisconnect") : d \in cbDevices}

\* The loop is over: StopAll calls MQTTPlugin.Stop, which emits
\* system.disconnected and then disconnects the client.
CbStopAll ==
    /\ cbPc = "devices"
    /\ \A d \in cbSnapshot : \E i \in DOMAIN cbLog[d] : cbLog[d][i] = "OnDestroy"
    /\ cbPc' = "StopAll"
    /\ cbGo' = cbGo \cup DisconnectedHandler
    /\ cbMqtt' = FALSE
    /\ UNCHANGED <<cbDevices, cbSnapshot, cbLog>>
    /\ UNCHANGED notCb

\* The event bus is stopped, the context cancelled, f.wg awaited (no callback
\* goroutine is counted in it) and the state becomes Stopped.
CbStopDone ==
    /\ cbPc = "StopAll"
    /\ cbPc' = "done"
    /\ UNCHANGED <<cbDevices, cbSnapshot, cbMqtt, cbGo, cbLog>>
    /\ UNCHANGED notCb

CbNext ==
    \/ \E d \in Devices : CbRegisterDevice(d)
    \/ \E d \in Devices, cb \in {"OnInitialize", "OnDisconnect"} : GoroutineRuns(Go(d, cb))
    \/ \E kind \in Incoming, first \in Devices : EventFromMessage(kind, first)
    \/ CbStopBegin
    \/ \E d \in Devices : CbOnDestroy(d)
    \/ CbStopAll
    \/ CbStopDone

\* ------------------------------------------------------------------------
\* MQTT session
\* ------------------------------------------------------------------------

\* The filters the agent subscribes: the RRPC request filter, the OTA upgrade
\* filter, a multi-level filter and a filter without wildcards.
Filters ==
    { <<"sys", "A", "b", "rrpc", "request", "+">>,
      <<"ota", "device", "upgrade", "+", "+">>,
      <<"sys", "#">>,
      <<"ota", "device", "upgrade", "A", "b">> }

\* The topics of incoming messages.
InTopics ==
    { <<"sys", "A", "b", "rrpc", "request", "R1">>,
      <<"ota", "device", "upgrade", "A", "b">>,
      <<"sys", "A", "b", "thing", "service", "property", "set">> }

RECURSIVE TopicMatches(_, _)
\* The MQTT library's router: the filter matches the topic level by level, "+"
\* one level, a trailing "#" any remaining levels.
TopicMatches(filter, topic) ==
    IF filter = <<>> THEN topic = <<>>
    ELSE IF Head(filter) = "#" THEN Len(filter) = 1
    ELSE IF topic = <<>> THEN FALSE
    ELSE /\ Head(filter) \in {"+", Head(topic)}
         /\ TopicMatches(Tail(filter), Tail(topic))

NoMessage == [topic |-> <<>>, stored |-> {}, invoked |-> {}]

\* The handler functions callers pass to Subscribe.
MqttHandlerIds == {"h1", "h2"}

\* c.handlers has no entry under the key.
NoHandler == "nil"

\* The keys of c.handlers.
Stored(handlers) == {f \in Filters : handlers[f] # NoHandler}

MqttInit ==
    /\ mqttConnected = TRUE
    /\ mqttHandlers = [f \in Filters |-> NoHandler]
    /\ mqttRoutes = {}
    /\ mqttLast = NoMessage

\* connectionLostHandler / onConnectHandler.
MqttConnectionChange ==
    /\ mqttConnected' = ~mqttConnected
    /\ UNCHANGED <<mqttHandlers, mqttRoutes, mqttLast>>
    /\ UNCHANGED notMqtt

\* Subscribe(topic, qos, handler): refused when not connected; else the handler is
\* stored under the filter and the library subscribes it with the lookup callback;
\* a failed SUBSCRIBE removes the stored handler again.
Subscribe(filter, handler, ok) ==
    /\ IF ~mqttConnected
       THEN UNCHANGED <<mqttHandlers, mqttRoutes>>
       ELSE /\ mqttHandlers' = [mqttHandlers EXCEPT ![filter] = IF ok THEN handler ELSE NoHandler]
            /\ mqttRoutes' = mqttRoutes \cup {filter}
    /\ UNCHANGED <<mqttConnected, mqttLast>>
    /\ UNCHANGED notMqtt

\* Unsubscribe(topic): refused when not connected; the library drops its route;
\* the stored handler is deleted unless the UNSUBSCRIBE failed.
Unsubscribe(filter, ok) ==
    /\ IF ~mqttConnected
       THEN UNCHANGED <<mqttHandlers, mqttRoutes>>
       ELSE /\ mqttRoutes' = mqttRoutes \ {filter}
            /\ mqttHandlers' = IF ok THEN [mqttHandlers EXCEPT ![filter] = NoHandler]
                               ELSE mqttHandlers
    /\ UNCHANGED <<mqttConnected, mqttLast>>
    /\ UNCHANGED notMqtt

\* The callback's lookup, c.handlers[msg.Topic()]: the handler stored under the
\* very topic of the message, if any.
Lookup(handlers, topic) == {f \in handlers : f = topic}

\* A message arrives: the library calls the callback of every route that matches
\* its topic, and each callback invokes what its lookup finds.
MessageArrives(topic) ==
    /\ mqttConnected
    /\ mqttLast' = [topic |-> topic, stored |-> Stored(mqttHandlers),
                    invoked |-> IF \E r \in mqttRoutes : TopicMatches(r, topic)
                                THEN Lookup(Stored(mqttHandlers), topic) ELSE {}]
    /\ UNCHANGED <<mqttConnected, mqttHandlers, mqttRoutes>>
    /\ UNCHANGED notMqtt

MqttNext ==
    \/ MqttConnectionChange
    \/ \E f \in Filters, h \in MqttHandlerIds, ok \in BOOLEAN : Subscribe(f, h, ok)
    \/ \E f \in Filters, ok \in BOOLEAN : Unsubscribe(f, ok)
    \/ \E t \in InTopics : MessageArrives(t)

\* ------------------------------------------------------------------------
\* Event bus
\* ------------------------------------------------------------------------

\* The most workers a bus is created with.
MaxWorkers == 1

\* NewBus: the queue holds workerCount*10 tasks.
QueueFactor == 10

Workers == 1..MaxWorkers

\* The subscriptions the application makes: a handler function with the priority
\* and the async flag it is subscribed with.
Handlers ==
    { [id |-> "h1", Priority |-> 5, Async |-> FALSE],
      [id |-> "h2", Priority |-> 10, Async |-> TRUE],
      [id |-> "h3", Priority |-> 5, Async |-> TRUE] }

QueueCap == busWorkerCount * QueueFactor

Ids(list) == {list[i].id : i \in DOMAIN list}

BusInit ==
    /\ busSubs = <<>>
    /\ busCap = 0
    /\ busWorkerCount \in 0..MaxWorkers
    /\ busStarted = FALSE
    /\ busCancelled = FALSE
    /\ busClosed = FALSE
    /\ busStopPc = "none"
    /\ busQueue = <<>>
    /\ busWorker = [w \in Workers |-> "none"]
    /\ busCrash = "none"
    /\ busLate = FALSE
    /\ pubPc = "idle"
    /\ pubSeen = <<>>
    /\ pubAlias = FALSE
    /\ pubRaced = FALSE
    /\ pubCopy = <<>>
    /\ pubIdx = 1
    /\ pubTask = <<>>
    /\ pubErrors = FALSE
    /\ pubPanicked = {}
    /\ pubLog = <<>>
    /\ pubMissed = {}
    /\ pubResult = "none"
    /\ pubAfterStop = FALSE
    /\ pubStayed = {}

\* The process is running.
BusAlive == busCrash = "none"

\* Mutant of SortByPriority: the list is left as append built it.
KeepAppendOrder(list) == {list}

\* sort.Slice with the comparison Priority > Priority: some permutation of the
\* list in non-increasing priority order (the sort is not stable).
SortByPriority(list) ==
    {s \in [DOMAIN list -> {list[i] : i \in DOMAIN list}] :
        /\ \A i, j \in DOMAIN list : i # j => s[i] # s[j]
        /\ \A i, j \in DOMAIN list : i < j => s[i].Priority >= s[j].Priority}

\* append on a full slice allocates a backing array of twice the capacity.
GrownCap(cap) == IF cap = 0 THEN 1 ELSE 2 * cap

\* A Publish holds a slice of the current backing array and has not copied it yet.
CopyPending == pubPc = "copy" /\ pubAlias

\* At most one Subscribe or Unsubscribe call overlaps the window between a
\* Publish's lookup and its copy.
WindowFree == ~(CopyPending /\ pubRaced)

\* SubscribeWithPriority: append, then sort in place. When the append fits the
\* capacity, both write the array a pending Publish is about to copy.
SubscribeWithPriority(h) ==
    /\ BusAlive
    /\ WindowFree
    /\ h.id \notin Ids(busSubs)
    /\ LET appended == Append(busSubs, h)
           inPlace == Len(busSubs) < busCap
       IN /\ busSubs' \in SortByPriority(appended)
          /\ busCap' = IF inPlace THEN busCap ELSE GrownCap(busCap)
          /\ IF CopyPending /\ inPlace
             THEN /\ pubSeen' = [i \in DOMAIN pubSeen |->
                                   pubSeen[i] \cup {appended[k] : k \in DOMAIN appended}]
                  /\ pubRaced' = TRUE
                  /\ UNCHANGED pubAlias
             ELSE /\ pubAlias' = (pubAlias /\ inPlace)
                  /\ UNCHANGED <<pubSeen, pubRaced>>
    /\ busLate' = (busLate \/ busStopPc = "returned")
    /\ UNCHANGED <<busWorkerCount, busStarted, busCancelled, busClosed, busStopPc,
                   busQueue, busWorker, busCrash>>
    /\ UNCHANGED <<pubPc, pubCopy, pubIdx, pubTask, pubErrors, pubPanicked, pubLog,
                   pubMissed, pubResult, pubAfterStop, pubStayed>>
    /\ UNCHANGED notBus

\* Unsubscribe: the first entry of the handler is cut out by shifting the tail
\* left in the same backing array.
BusUnsubscribe(h) ==
    /\ BusAlive
    /\ WindowFree
    /\ h \in Ids(busSubs)
    /\ LET k == CHOOSE i \in DOMAIN busSubs : busSubs[i].id = h
       IN /\ busSubs' = [i \in 1..(Len(busSubs) - 1) |->
                            IF i < k THEN busSubs[i] ELSE busSubs[i + 1]]
          /\ IF CopyPending
             THEN /\ pubSeen' = [i \in DOMAIN pubSeen |->
                                   IF i >= k /\ i < Len(busSubs)
                                   THEN pubSeen[i] \cup {busSubs[i + 1]}
                                   ELSE pubSeen[i]]
                  /\ pubRaced' = TRUE
             ELSE UNCHANGED <<pubSeen, pubRaced>>
    /\ pubStayed' = pubStayed \ {h}
    /\ UNCHANGED <<busCap, busWorkerCount, busLate, busStarted, busCancelled, busClosed, busStopPc,
                   busQueue, busWorker, busCrash>>
    /\ UNCHANGED <<pubPc, pubAlias, pubCopy, pubIdx, pubTask, pubErrors, pubPanicked,
                   pubLog, pubMissed, pubResult, pubAfterStop>>
    /\ UNCHANGED notBus

\* Start: workerCount worker goroutines are started.
BusStart ==
    /\ BusAlive
    /\ ~busStarted
    /\ busStarted' = TRUE
    /\ busWorker' = [w \in Workers |-> IF w <= busWorkerCount THEN "idle" ELSE "none"]
    /\ UNCHANGED <<busSubs, busCap, busWorkerCount, busLate, busCancelled, busClosed, busStopPc,
                   busQueue, busCrash>>
    /\ UNCHANGED pubVars
    /\ UNCHANGED notBus

\* Stop, first statement: b.cancel().
StopCancel ==
    /\ BusAlive
    /\ busStopPc = "none"
    /\ busCancelled' = TRUE
    /\ busStopPc' = "cancelled"
    /\ UNCHANGED <<busSubs, busCap, busWorkerCount, busLate, busStarted, busClosed, busQueue,
                   busWorker, busCrash>>
    /\ UNCHANGED pubVars
    /\ UNCHANGED notBus

\* Stop, second statement: close(b.workerPool).
StopClose ==
    /\ BusAlive
    /\ busStopPc = "cancelled"
    /\ busClosed' = TRUE
    /\ busStopPc' = "closed"
    /\ UNCHANGED <<busSubs, busCap, busWorkerCount, busLate, busStarted, busCancelled, busQueue,
                   busWorker, busCrash>>
    /\ UNCHANGED pubVars
    /\ UNCHANGED notBus

\* A Stop that returns without replacing the subscriber map.
StopWaitNoClear ==
    /\ BusAlive
    /\ busStopPc = "closed"
    /\ \A w \in Workers : busWorker[w] # "idle"
    /\ busStopPc' = "returned"
    /\ UNCHANGED <<busSubs, busCap, busWorkerCount, busLate, busStarted, busCancelled,
                   busClosed, busQueue, busWorker, busCrash>>
    /\ UNCHANGED pubVars
    /\ UNCHANGED notBus

\* Stop, the rest: b.wg.Wait() returns once every started worker has exited, then
\* the subscriber map is replaced by an empty one.
StopWaitAndClear ==
    /\ BusAlive
    /\ busStopPc = "closed"
    /\ \A w \in Workers : busWorker[w] # "idle"
    /\ busSubs' = <<>>
    /\ busCap' = 0
    /\ pubAlias' = FALSE
    /\ busStopPc' = "returned"
    /\ pubStayed' = {}
    /\ UNCHANGED <<busWorkerCount, busLate, busStarted, busCancelled, busClosed, busQueue,
                   busWorker, busCrash>>
    /\ UNCHANGED <<pubPc, pubSeen, pubRaced, pubCopy, pubIdx, pubTask, pubErrors,
                   pubPanicked, pubLog, pubMissed, pubResult, pubAfterStop>>
    /\ UNCHANGED notBus

\* The results a handler function may have.
Outcomes == {"nil", "error", "panic"}

\* Mutant of ExecuteHandler: no deferred recover.
ExecuteHandlerNoRecover(outcome) == outcome

\* executeHandler: the handler's error, with a panic recovered into an error.
ExecuteHandler(outcome) == IF outcome = "panic" THEN "error" ELSE outcome

\* The handler at index i of handlersCopy runs with `outcome`; ev tells whether
\* Publish called it ("sync") or a worker or goroutine ran its task ("async").
RunHandler(i, outcome, ev) ==
    IF ExecuteHandler(outcome) = "panic"
    THEN /\ busCrash' = "handlerPanic"
         /\ UNCHANGED <<pubErrors, pubPanicked, pubLog>>
    ELSE /\ pubErrors' = (pubErrors \/ ExecuteHandler(outcome) = "error")
         /\ pubPanicked' = IF outcome = "panic" THEN pubPanicked \cup {ev} ELSE pubPanicked
         /\ pubLog' = Append(pubLog, [idx |-> i, ev |-> ev])
         /\ UNCHANGED busCrash

\* Publish up to the release of the read lock: no handlers, return nil; else the
\* slice read under the lock is kept for the copy.
PublishBegin ==
    /\ BusAlive
    /\ pubPc = "idle"
    /\ IF Len(busSubs) = 0
       THEN /\ pubResult' = "nil"
            /\ UNCHANGED <<pubPc, pubSeen, pubAlias>>
       ELSE /\ pubResult' = "none"
            /\ pubPc' = "copy"
            /\ pubSeen' = [i \in DOMAIN busSubs |-> {busSubs[i]}]
            /\ pubAlias' = TRUE
    /\ pubAfterStop' = (busStopPc = "returned")
    /\ pubStayed' = Ids(busSubs)
    /\ pubRaced' = FALSE
    /\ pubCopy' = <<>>
    /\ pubIdx' = 1
    /\ pubTask' = <<>>
    /\ pubErrors' = FALSE
    /\ pubPanicked' = {}
    /\ pubLog' = <<>>
    /\ pubMissed' = {}
    /\ UNCHANGED busVars
    /\ UNCHANGED notBus

\* copy(handlersCopy, handlers), outside the lock: each cell yields one of the
\* values it has held since the lock was released.
PublishCopy ==
    /\ BusAlive
    /\ pubPc = "copy"
    /\ pubCopy' \in {c \in [DOMAIN pubSeen -> UNION {pubSeen[i] : i \in DOMAIN pubSeen}] :
                        \A i \in DOMAIN pubSeen : c[i] \in pubSeen[i]}
    /\ pubTask' = [i \in DOMAIN pubSeen |-> "none"]
    /\ pubPc' = "loop"
    /\ pubSeen' = <<>>
    /\ pubAlias' = FALSE
    /\ UNCHANGED <<pubRaced, pubIdx, pubErrors, pubPanicked, pubLog, pubMissed, pubResult, pubAfterStop, pubStayed>>
    /\ UNCHANGED busVars
    /\ UNCHANGED notBus

\* The loop goes on to the next handler, or to wg.Wait() after the last.
Advance ==
    /\ pubIdx' = pubIdx + 1
    /\ pubPc' = IF pubIdx = Len(pubCopy) THEN "wait" ELSE "loop"

\* The loop body for a synchronous handler.
PublishSync(outcome) ==
    /\ BusAlive
    /\ pubPc = "loop"
    /\ ~pubCopy[pubIdx].Async
    /\ RunHandler(pubIdx, outcome, "sync")
    /\ Advance
    /\ UNCHANGED <<pubSeen, pubAlias, pubRaced, pubCopy, pubTask, pubMissed, pubResult, pubAfterStop, pubStayed>>
    /\ UNCHANGED <<busSubs, busCap, busWorkerCount, busLate, busStarted, busCancelled, busClosed,
                   busStopPc, busQueue, busWorker>>
    /\ UNCHANGED notBus

\* The loop body for an asynchronous handler, submitWork's first case: the task
\* is sent to the queue, which has room.
PublishSubmit ==
    /\ BusAlive
    /\ pubPc = "loop"
    /\ pubCopy[pubIdx].Async
    /\ ~busClosed
    /\ Len(busQueue) < QueueCap
    /\ busQueue' = Append(busQueue, pubIdx)
    /\ pubTask' = [pubTask EXCEPT ![pubIdx] = "queued"]
    /\ pubLog' = Append(pubLog, [idx |-> pubIdx, ev |-> "submit"])
    /\ Advance
    /\ UNCHANGED <<pubSeen, pubAlias, pubRaced, pubCopy, pubErrors, pubPanicked,
                   pubMissed, pubResult, pubAfterStop, pubStayed>>
    /\ UNCHANGED <<busSubs, busCap, busWorkerCount, busLate, busStarted, busCancelled, busClosed,
                   busStopPc, busWorker, busCrash>>
    /\ UNCHANGED notBus

\* submitWork's second case: the queue stayed full for 5 s, the task gets a
\* goroutine of its own.
PublishSubmitTimeout ==
    /\ BusAlive
    /\ pubPc = "loop"
    /\ pubCopy[pubIdx].Async
    /\ ~busClosed
    /\ Len(busQueue) >= QueueCap
    /\ pubTask' = [pubTask EXCEPT ![pubIdx] = "spawned"]
    /\ pubLog' = Append(pubLog, [idx |-> pubIdx, ev |-> "submit"])
    /\ Advance
    /\ UNCHANGED <<pubSeen, pubAlias, pubRaced, pubCopy, pubErrors, pubPanicked,
                   pubMissed, pubResult, pubAfterStop, pubStayed>>
    /\ UNCHANGED busVars
    /\ UNCHANGED notBus

\* submitWork on a closed queue: the send panics in the publishing goroutine.
PublishSendOnClosed ==
    /\ BusAlive
    /\ pubPc = "loop"
    /\ pubCopy[pubIdx].Async
    /\ busClosed
    /\ busCrash' = "sendOnClosed"
    /\ UNCHANGED <<busSubs, busCap, busWorkerCount, busLate, busStarted, busCancelled, busClosed,
                   busStopPc, busQueue, busWorker>>
    /\ UNCHANGED pubVars
    /\ UNCHANGED notBus

\* wg.Wait() returns when every task of this Publish has run; Publish returns.
PublishReturn ==
    /\ BusAlive
    /\ pubPc = "wait"
    /\ \A i \in DOMAIN pubCopy : pubCopy[i].Async => pubTask[i] = "done"
    /\ pubResult' = IF pubErrors THEN "error" ELSE "nil"
    /\ pubMissed' = {i \in DOMAIN pubCopy :
                        ~ \E k \in DOMAIN pubLog :
                             pubLog[k].idx = i /\ pubLog[k].ev \in {"sync", "async"}}
    /\ pubPc' = "idle"
    /\ pubCopy' = <<>>
    /\ pubIdx' = 1
    /\ pubTask' = <<>>
    /\ pubLog' = <<>>
    /\ pubStayed' = {}
    /\ UNCHANGED <<pubSeen, pubAlias, pubRaced, pubErrors, pubPanicked, pubAfterStop>>
    /\ UNCHANGED busVars
    /\ UNCHANGED notBus

\* worker, first select case with a task: the task is received and run.
WorkerRun(w, outcome) ==
    /\ BusAlive
    /\ busWorker[w] = "idle"
    /\ busQueue # <<>>
    /\ busQueue' = Tail(busQueue)
    /\ RunHandler(Head(busQueue), outcome, "async")
    /\ pubTask' = [pubTask EXCEPT ![Head(busQueue)] = "done"]
    /\ UNCHANGED <<pubPc, pubSeen, pubAlias, pubRaced, pubCopy, pubIdx, pubMissed, pubResult, pubAfterStop, pubStayed>>
    /\ UNCHANGED <<busSubs, busCap, busWorkerCount, busLate, busStarted, busCancelled, busClosed,
                   busStopPc, busWorker>>
    /\ UNCHANGED notBus

\* worker returns: the queue is closed and drained (first case, !ok), or the
\* context is cancelled (second case), whatever the queue holds.
WorkerExit(w) ==
    /\ BusAlive
    /\ busWorker[w] = "idle"
    /\ busCancelled \/ (busClosed /\ busQueue = <<>>)
    /\ busWorker' = [busWorker EXCEPT ![w] = "exited"]
    /\ UNCHANGED <<busSubs, busCap, busWorkerCount, busLate, busStarted, busCancelled, busClosed,
                   busStopPc, busQueue, busCrash>>
    /\ UNCHANGED pubVars
    /\ UNCHANGED notBus

\* The goroutine submitWork started after its timeout runs the task.
GoWork(i, outcome) ==
    /\ BusAlive
    /\ i \in DOMAIN pubTask
    /\ pubTask[i] = "spawned"
    /\ RunHandler(i, outcome, "async")
    /\ pubTask' = [pubTask EXCEPT ![i] = "done"]
    /\ UNCHANGED <<pubPc, pubSeen, pubAlias, pubRaced, pubCopy, pubIdx, pubMissed, pubResult, pubAfterStop, pubStayed>>
    /\ UNCHANGED <<busSubs, busCap, busWorkerCount, busLate, busStarted, busCancelled, busClosed,
                   busStopPc, busQueue, busWorker>>
    /\ UNCHANGED notBus

\* What the publishing goroutine does next.
PublishStep ==
    \/ PublishCopy
    \/ \E outcome \in Outcomes : PublishSync(outcome)
    \/ PublishSubmit
    \/ PublishSubmitTimeout
    \/ PublishSendOnClosed
    \/ PublishReturn

BusNext ==
    \/ \E h \in Handlers : SubscribeWithPriority(h)
    \/ \E h \in Handlers : BusUnsubscribe(h.id)
    \/ BusStart
    \/ StopCancel
    \/ StopClose
    \/ StopWaitAndClear
    \/ PublishBegin
    \/ PublishStep
    \/ \E w \in Workers, outcome \in Outcomes : WorkerRun(w, outcome)
    \/ \E w \in Workers : WorkerExit(w)
    \/ \E i \in 1..Cardinality(Handlers), outcome \in Outcomes : GoWork(i, outcome)

\* ------------------------------------------------------------------------
\* Nested publish
\* ------------------------------------------------------------------------

\* The most workers the bus is created with.
MaxPool == 2

\* The number of async handlers of the outer event type; each of them publishes
\* the inner event type, which has one async handler.
OuterHandlers == 3

PoolWorkers == 1..MaxPool

\* The task of the outer Publish for its i-th handler, and the task the Publish
\* inside that handler submits.
OuterTask(i) == [ev |-> "outer", of |-> i]

InnerTask(i) == [ev |-> "inner", of |-> i]

PoolTasks == {OuterTask(i) : i \in 1..OuterHandlers} \cup {InnerTask(i) : i \in 1..OuterHandlers}

NestInit ==
    /\ poolCount = -1
    /\ poolQueue = <<>>
    /\ poolTask = [t \in PoolTasks |-> "none"]
    /\ poolRunner = [t \in PoolTasks |-> 0]
    /\ outerPc = "idle"

\* NewBus(n) followed by Start: a queue of n*10 places and n idle workers.
NewBusAndStart(n) ==
    /\ poolCount = -1
    /\ poolCount' = n
    /\ UNCHANGED <<poolQueue, poolTask, poolRunner, outerPc>>
    /\ UNCHANGED notNest

\* cap(b.workerPool)
PoolCap == poolCount * QueueFactor

\* The worker is inside a task: in the outer handler, or in the wg.Wait of the
\* Publish that handler called.
WorkerBusy(w) ==
    \E t \in PoolTasks : poolRunner[t] = w /\ poolTask[t] \in {"handler", "wait"}

\* submitWork: the send succeeds while the queue has room; otherwise the 5 s
\* timer fires and the task gets a goroutine of its own.
SubmitWork == IF Len(poolQueue) < PoolCap THEN "queued" ELSE "spawned"

\* The effect of submitWork(t) on the queue and the task.
Submitted(t) ==
    /\ poolTask' = [poolTask EXCEPT ![t] = SubmitWork]
    /\ poolQueue' = IF SubmitWork = "queued" THEN Append(poolQueue, t) ELSE poolQueue

\* The application calls Publish for the outer event type: the handler list is
\* copied and the loop begins.
OuterPublish ==
    /\ poolCount >= 0
    /\ outerPc = "idle"
    /\ outerPc' = "loop"
    /\ UNCHANGED <<poolCount, poolQueue, poolTask, poolRunner>>
    /\ UNCHANGED notNest

\* The loop body of the outer Publish for its i-th (async) handler; after the
\* last one it goes to wg.Wait().
OuterSubmit(i) ==
    /\ outerPc = "loop"
    /\ poolTask[OuterTask(i)] = "none"
    /\ \A k \in 1..(i - 1) : poolTask[OuterTask(k)] # "none"
    /\ Submitted(OuterTask(i))
    /\ outerPc' = IF i = OuterHandlers THEN "wait" ELSE "loop"
    /\ UNCHANGED <<poolCount, poolRunner>>
    /\ UNCHANGED notNest

\* worker: a task is received from the queue. An outer task enters its handler;
\* an inner task's handler runs and returns, and wg.Done() is called.
WorkerTake(w) ==
    /\ w \in 1..poolCount
    /\ ~WorkerBusy(w)
    /\ poolQueue # <<>>
    /\ LET t == Head(poolQueue)
       IN /\ poolQueue' = Tail(poolQueue)
          /\ poolTask' = [poolTask EXCEPT ![t] = IF t.ev = "outer" THEN "handler" ELSE "done"]
          /\ poolRunner' = [poolRunner EXCEPT ![t] = w]
    /\ UNCHANGED <<poolCount, outerPc>>
    /\ UNCHANGED notNest

\* The goroutine submitWork started after its timeout runs the task.
GoRun(t) ==
    /\ poolTask[t] = "spawned"
    /\ poolTask' = [poolTask EXCEPT ![t] = IF t.ev = "outer" THEN "handler" ELSE "done"]
    /\ poolRunner' = [poolRunner EXCEPT ![t] = 0]
    /\ UNCHANGED <<poolCount, poolQueue, outerPc>>
    /\ UNCHANGED notNest

\* The i-th outer handler calls Publish for the inner event type: its one async
\* handler is submitted, and the Publish goes to wg.Wait().
HandlerPublish(i) ==
    /\ poolTask[OuterTask(i)] = "handler"
    /\ poolTask' = [poolTask EXCEPT ![InnerTask(i)] = SubmitWork,
                                    ![OuterTask(i)] = "wait"]
    /\ poolQueue' = IF SubmitWork = "queued"
                    THEN Append(poolQueue, InnerTask(i)) ELSE poolQueue
    /\ UNCHANGED <<poolCount, poolRunner, outerPc>>
    /\ UNCHANGED notNest

\* The inner Publish's wg.Wait() returns, the outer handler returns, and the
\* task calls wg.Done(); a worker goes back to its select.
HandlerReturn(i) ==
    /\ poolTask[OuterTask(i)] = "wait"
    /\ poolTask[InnerTask(i)] = "done"
    /\ poolTask' = [poolTask EXCEPT ![OuterTask(i)] = "done"]
    /\ UNCHANGED <<poolCount, poolQueue, poolRunner, outerPc>>
    /\ UNCHANGED notNest

\* The outer Publish's wg.Wait() returns and Publish returns.
OuterReturn ==
    /\ outerPc = "wait"
    /\ \A i \in 1..OuterHandlers : poolTask[OuterTask(i)] = "done"
    /\ outerPc' = "returned"
    /\ UNCHANGED <<poolCount, poolQueue, poolTask, poolRunner>>
    /\ UNCHANGED notNest

NestNext ==
    \/ \E n \in 0..MaxPool : NewBusAndStart(n)
    \/ OuterPublish
    \/ \E i \in 1..OuterHandlers : OuterSubmit(i)
    \/ \E w \in PoolWorkers : WorkerTake(w)
    \/ \E t \in PoolTasks : GoRun(t)
    \/ \E i \in 1..OuterHandlers : HandlerPublish(i)
    \/ \E i \in 1..OuterHandlers : HandlerReturn(i)
    \/ OuterReturn

\* ------------------------------------------------------------------------
\* Specifications
\* ------------------------------------------------------------------------

Init == MgrInit /\ FwInit /\ OtaInit /\ RecvInit /\ VersionInit /\ PropInit /\ SvcInit /\ ConnInit /\ SortInit /\ LockInit /\ CbInit /\ NestInit /\ RrpcInit /\ MqttInit /\ BusInit

\* The plugins of the framework's applications: the MQTT plugin is a leaf, the OTA
\* plugin depends on it, and an application plugin may depend on either.
FwDeps ==
    {d \in [Names -> SUBSET Names] :
        d["mqtt"] = {} /\ d["ota"] = {"mqtt"} /\ d["rule"] \subseteq {"mqtt", "ota"}}

InitFw == Init /\ deps \in FwDeps /\ busWorkerCount = 0 /\ vfInitial = AbsentFile

\* The plugin manager used on its own, through its exported methods.
InitPlugin == Init /\ busWorkerCount = 0 /\ vfInitial = AbsentFile

SpecPlugin == InitPlugin /\ [][MgrNext]_vars

\* Concurrent PerformUpdate calls on one OTA manager.
InitOta == Init /\ deps = [n \in Names |-> {}] /\ busWorkerCount = 0 /\ vfInitial = AbsentFile

InitBus == Init /\ deps = [n \in Names |-> {}] /\ vfInitial = AbsentFile

\* Providers created on a version file in each of its initial forms.
InitVersion == Init /\ deps = [n \in Names |-> {}] /\ busWorkerCount = 0

SpecVersion == InitVersion /\ [][VersionNext]_vars

\* The OTA manager when every call that can proceed does, and callers keep calling.
SpecOtaLive == InitOta /\ [][OtaNext]_vars /\ WF_vars(OtaNext)

SpecOta == InitOta /\ [][OtaNext]_vars

\* OTA messages handed to the OTA client, and the updates they start.
SpecRecv == InitOta /\ [][RecvNext]_vars

\* The RRPC client serving the requests the session delivers to it.
SpecRrpc == InitOta /\ [][RrpcNext]_vars

\* The MQTT session: subscriptions and incoming messages.
SpecMqtt == InitOta /\ [][MqttNext]_vars

\* The event bus with one publishing goroutine, its workers and a Stop call.
SpecBus == InitBus /\ [][BusNext]_vars

\* The framework from Initialize to Stop, with lifecycle calls in every state.
InitFwLife == InitFw /\ deps["rule"] = {}

SpecFwLife == InitFwLife /\ [][FwLifeNext]_vars

\* The framework, which alone calls InitAll and StartAll on its manager.
SpecFw == InitFw /\ [][FwNext]_vars

\* Property-set messages handled by the MQTT plugin and the framework.
SpecProp == InitOta /\ [][PropNext]_vars

\* service.call events handled by the framework.
SpecSvc == InitOta /\ [][SvcNext]_vars

\* The MQTT plugin's session from Start to Stop, with losses and reconnects.
SpecConn == InitOta /\ [][ConnNext]_vars

\* The same when the session's events and the calls that are possible keep
\* happening.
SpecConnLive == InitOta /\ [][ConnNext]_vars /\ WF_vars(ConnNext)

\* Handlers subscribed one after the other to one event type, and Publish.
SpecSort == InitOta /\ [][SortNext]_vars

\* The goroutines that take the plugin manager's lock, the OTA plugin's lock and
\* the device table's lock.
SpecLock == InitOta /\ [][LockNext]_vars

\* Handlers on the worker pool that publish.
SpecNest == InitOta /\ [][NestNext]_vars

\* The callbacks made on the devices of a Started framework until it has stopped.
SpecCb == InitOta /\ [][CbNext]_vars

\* ------------------------------------------------------------------------
\* Claims
\* ------------------------------------------------------------------------

\* C1: InitAll and StartAll make a lifecycle call on a plugin only after the same
\* call has returned nil, in the same operation, for every plugin it depends on.
C1_DependencyOrder ==
    opKind \in {"InitAll", "StartAll"} =>
        \A i \in DOMAIN opLog :
            \A d \in deps[opLog[i].name] :
                \E j \in 1..(i - 1) : opLog[j].name = d /\ opLog[j].ok

\* C1 witness: StartAll has started a chain of three plugins, each depending on
\* the one before.
C1_Witness ==
    /\ opKind = "StartAll"
    /\ mgrOp = "idle"
    /\ opResult = "ok"
    /\ Len(opLog) = 3
    /\ deps["ota"] = {"mqtt"}
    /\ deps["rule"] = {"mqtt", "ota"}

\* C2 (as claimed): StopAll never calls Stop on a plugin while a plugin that
\* declares it as a dependency is still running.
C2_StopOrder ==
    opKind = "StopAll" =>
        \A i \in DOMAIN opLog :
            ~ \E q \in opLog[i].live : q # opLog[i].name /\ opLog[i].name \in deps[q]

\* C3: a PerformUpdate call that finds the status other than Idle returns a failure
\* result without invoking the downloader, and the downloader is never active for
\* two calls at once.
C3_AtMostOneUpdate ==
    /\ \A c \in Callers :
          otaObserved[c] \notin {"none", "idle"} =>
              /\ otaPc[c] = "returned"
              /\ otaResult[c] = "-1"
              /\ ~otaDlCalled[c]
    /\ Cardinality({c \in Callers : otaPc[c] = "downloading"}) <= 1

\* C3 witness: one call is inside the downloader while the other call, made
\* meanwhile, has been refused.
C3_Witness ==
    /\ otaPc["c1"] = "downloading"
    /\ otaObserved["c2"] = "downloading"
    /\ otaResult["c2"] = "-1"

\* C4: PrepareUpdate and every later step are reached only with bytes whose MD5
\* equals the task's digest, and an update that failed verification has written
\* none of the executable, the backup, the new image and the version file.
C4_DigestBeforeInstall ==
    \A c \in Callers :
        /\ otaPc[c] \in {"prepare", "setVersion", "execute"} =>
              MD5Hex(otaData[c]) = otaInfo[c].Digest
        /\ (otaPc[c] = "returned" /\ otaResult[c] \in {"-4", "-5"}) =>
              MD5Hex(otaData[c]) = otaInfo[c].Digest
        /\ tempFile # "none" => \E d \in Digests : MD5Hex(tempFile) = d
        /\ (otaPc[c] = "returned" /\ otaResult[c] = "-3") => Files = otaEntryFiles[c]

\* C4 witness: a download of the right length whose digest differs from the
\* task's has been refused by Verify.
C4_Witness ==
    /\ otaPc["c1"] = "returned"
    /\ otaResult["c1"] = "-3"
    /\ otaData["c1"] = "fwB"
    /\ otaInfo["c1"].Digest = "0a"

\* The responses published for delivered message i.
ResponsesFor(i) == {k \in DOMAIN rrpcOut : rrpcOut[k].req = i}

\* Message i arrived on /sys/{PK}/{DN}/rrpc/request/{id} of this device and its
\* handling has ended.
Handled(i) ==
    /\ rrpcReq[i].state = "done"
    /\ rrpcReq[i].topic[3] = "b"
    /\ rrpcReq[i].topic[6] # ""

\* Exactly one response for message i, on the response topic of its id, with `code`.
OneResponse(i, code) ==
    /\ Cardinality(ResponsesFor(i)) = 1
    /\ \A k \in ResponsesFor(i) :
          /\ rrpcOut[k].topic = <<"sys", "A", "b", "rrpc", "response", rrpcReq[i].topic[6]>>
          /\ rrpcOut[k].code = code

C6_WildcardRouting ==
    \A f \in mqttLast.stored :
        (f \in mqttRoutes /\ TopicMatches(f, mqttLast.topic)) => f \in mqttLast.invoked

\* C13: Register returns an error and leaves the plugins and started maps as they
\* were when the name is already registered or a declared dependency is not; else
\* it adds exactly that plugin, with started = false.
C13_RegisterChecks ==
    [][\A p \in Names :
          Register(p) =>
              IF p \in plugins
              THEN regResult' = "already registered" /\ UNCHANGED <<plugins, started>>
              ELSE IF \E d \in deps[p] : d \notin plugins
              THEN regResult' = "dependency not found" /\ UNCHANGED <<plugins, started>>
              ELSE /\ regResult' = "ok"
                   /\ plugins' = plugins \cup {p}
                   /\ started' = started /\ p \notin started']_vars

\* C13 witness: a Register was refused for a missing dependency while a started
\* plugin was registered.
C13_Witness ==
    /\ regResult = "dependency not found"
    /\ plugins = {"mqtt"} /\ started = {"mqtt"}
    /\ mgrOp = "idle"

\* C14: Unregister of a registered plugin is refused, the plugin staying
\* registered, when another registered plugin declares it as a dependency; else
\* the plugin is removed, and was stopped first if it was running.
C14_UnregisterRefused ==
    [][\A p \in Names :
          (p \in plugins /\ Unregister(p)) =>
              IF \E q \in plugins \ {p} : p \in deps[q]
              THEN regResult' = "depends on it" /\ plugins' = plugins
              ELSE /\ regResult' = "ok"
                   /\ plugins' = plugins \ {p}
                   /\ p \notin started' /\ p \notin running']_vars

\* C14 witness: an Unregister was refused while the plugin and its dependent were
\* both registered and started.
C14_Witness ==
    /\ regResult = "depends on it"
    /\ plugins = {"mqtt", "ota"} /\ started = {"mqtt", "ota"}
    /\ deps["ota"] = {"mqtt"} /\ deps["mqtt"] = {}
    /\ mgrOp = "idle"

\* C15 (as claimed): a RegisterDevice that stores the device emits
\* device.registered carrying its device id; one refused as a duplicate emits
\* nothing.
C15_DeviceRegisteredEmitted ==
    [][\A d \in Devices :
          RegisterDevice(d) =>
              IF d \in devices
              THEN fwTrace' = fwTrace
              ELSE /\ Len(fwTrace') = Len(fwTrace) + 1
                   /\ fwTrace'[Len(fwTrace')].ev = "device.registered"
                   /\ fwTrace'[Len(fwTrace')].dev = d]_vars

\* The Codes PerformUpdate returns for an update that failed at one of its steps.
FailureCodes == {"-2", "-3", "-4", "-5"}

\* Caller c's PerformUpdate took the manager and returned a failure.
FailedUpdate(c) == otaPc[c] = "returned" /\ otaResult[c] \in FailureCodes

\* C16 (as claimed): a manager whose update failed eventually returns to Idle, so
\* that a later PerformUpdate is accepted.
C16_FailedReturnsToIdle == (otaStatus = "failed") ~> (otaStatus = "idle")

\* C17 (as claimed): a failed update has published a progress report whose code is
\* the Code of its UpdateResult.
C17_WireCodeMatches ==
    \A c \in Callers :
        FailedUpdate(c) => \E i \in DOMAIN otaWire[c] : otaWire[c][i] = otaResult[c]

\* C18 (as claimed): a PerformUpdate that failed after leaving Idle has attempted
\* Rollback before returning.
C18_RollbackOnAnyFailure == \A c \in Callers : FailedUpdate(c) => otaRollback[c]

\* The message's data object is non-empty and has both url and size.
HasUrlAndSize(msg) ==
    /\ msg.syntaxOk /\ msg.data = "object" /\ msg.members # EmptyData
    /\ msg.members.url # "absent" /\ msg.members.size # "absent"

\* C19 (as claimed): a message whose data is missing or empty, or lacks url or
\* size, yields no task, is not handed to the receive handler and starts no
\* update; only a message with non-empty data, url and size is handed over.
C19_TaskNeedsUrlAndSize ==
    ~HasUrlAndSize(otaRecv.msg) =>
        otaRecv.task = NoTask /\ otaRecv.outcome \in {"none", "unmarshal failed", "no task"}

\* What a provider reads from the version file as it initially was.
InitialVersion ==
    CASE vfInitial.fmt = "absent" -> "1.0.0"
      [] vfInitial.fmt = "text" -> "1.5.0"
      [] vfInitial.fmt = "json" -> vfInitial.version

InitialModule ==
    IF vfInitial.fmt = "json" /\ vfInitial.module # "" THEN vfInitial.module ELSE "default"

\* The version a new provider is to read back.
ExpectedVersion == IF vfLast.version = "unset" THEN InitialVersion ELSE vfLast.version

C12_LatestHandler ==
    [][\A f \in Filters, h \in MqttHandlerIds, ok \in BOOLEAN :
          (mqttConnected /\ mqttHandlers[f] # NoHandler /\ Subscribe(f, h, ok))
              => mqttHandlers'[f] = h]_vars

\* The handler invocations of the running Publish, in the order they happened.
Invocations == SelectSeq(pubLog, LAMBDA e : e.ev \in {"sync", "async"})

\* What the Publish loop itself did, in order: sync invocations and submissions.
Issued == SelectSeq(pubLog, LAMBDA e : e.ev \in {"sync", "submit"})

\* The handlers of the log entries come in non-increasing priority order.
NonIncreasing(log) ==
    \A i, j \in DOMAIN log :
        i < j => pubCopy[log[i].idx].Priority >= pubCopy[log[j].idx].Priority

C8_PanicContained ==
    /\ busCrash # "handlerPanic"
    /\ (pubPc = "idle" /\ pubResult # "none") =>
          /\ pubMissed = {}
          /\ pubPanicked # {} => pubResult = "error"
    /\ \A w \in Workers : busWorker[w] = "exited" => (busCancelled \/ busClosed)

\* C8 witness: a Publish during which a sync handler and an async handler run by
\* the worker both panicked has returned an error, and the worker is still there.
C8_Witness ==
    /\ pubPc = "idle" /\ pubResult = "error"
    /\ pubPanicked = {"sync", "async"}
    /\ busWorkerCount = 1 /\ busStarted /\ busWorker[1] = "idle"
    /\ busStopPc = "none"

\* The task of index i is in the queue and every worker has returned.
Dropped(i) ==
    /\ pubTask[i] = "queued"
    /\ busStarted
    /\ \A w \in Workers : busWorker[w] # "idle"

\* C9 (as claimed): a task handed to the worker pool is never dropped: no task is
\* left in the queue with no worker to run it (so that it never runs and its
\* Publish never returns), and no task runs twice.
C9_NeverDropped ==
    \A i \in DOMAIN pubTask :
        /\ ~Dropped(i)
        /\ Cardinality({k \in DOMAIN pubLog : pubLog[k] = [idx |-> i, ev |-> "async"]}) <= 1

\* A lifecycle call is accepted exactly in the state it needs.
AcceptedInState(call, state) ==
    /\ fwLast.call = call => (fwLast.result = "ok" <=> fwLast.before = state)

\* The step is a lifecycle call that returned an error.
RejectedCall == fwLast' # fwLast /\ fwLast'.result = "error"

\* C11: Initialize, Start and Stop return an error unless the state is
\* Uninitialized, Initialized and Started respectively; a call that returns an
\* error changes neither the lifecycle state nor the devices, the plugin manager
\* or a running shutdown; and no step of the shutdown sequence (the begin, a
\* device's OnDestroy, StopAll, the event bus Stop, the cancel) happens twice.
C11_WrongStateCalls ==
    /\ [](/\ AcceptedInState("Initialize", "Uninitialized")
          /\ AcceptedInState("Start", "Initialized")
          /\ AcceptedInState("Stop", "Started")
          /\ \A i, j \in DOMAIN fwStopTrace : i < j => fwStopTrace[i] # fwStopTrace[j])
    /\ [][RejectedCall =>
            UNCHANGED <<fwState, fwPc, devices, fwSnapshot, fwInitDone, asyncInit,
                        asyncInited, fwTrace, fwStopVars, mgrVars>>]_vars

\* C11 witness: after a completed Stop that destroyed a device and stopped the
\* plugins, a second Stop was refused.
C11_Witness ==
    /\ fwLast = [call |-> "Stop", before |-> "Stopped", result |-> "error"]
    /\ fwState = "Stopped"
    /\ Len(fwStopTrace) = 5
    /\ started = {}
    /\ opKind = "StopAll" /\ Len(opLog) = 2

\* C10: Start works in this order: InitAll returns nil, then StartAll returns nil
\* having started every plugin it found, then OnInitialize on the devices, then
\* system.ready, then state Started; the devices registered before Start are all
\* initialized before system.ready.
Rank(ev) ==
    CASE ev = "eventBus.Start" -> 0
      [] ev = "InitAll" -> 1
      [] ev = "StartAll" -> 2
      [] ev = "OnInitialize" -> 3
      [] ev = "system.ready" -> 4
      [] ev = "Started" -> 5

C10_StartOrder ==
    /\ \A i, j \in DOMAIN fwTrace :
          i < j => /\ Rank(fwTrace[i].ev) <= Rank(fwTrace[j].ev)
                   /\ Rank(fwTrace[j].ev) # 3 => Rank(fwTrace[i].ev) < Rank(fwTrace[j].ev)
    /\ \A j \in DOMAIN fwTrace :
          /\ Rank(fwTrace[j].ev) \in {1, 2} => Rank(fwTrace[j - 1].ev) = Rank(fwTrace[j].ev) - 1
          /\ Rank(fwTrace[j].ev) >= 3 =>
                \E i \in 1..(j - 1) : fwTrace[i].ev = "StartAll" /\ fwTrace[i].pending = {}
          /\ Rank(fwTrace[j].ev) >= 2 =>
                \E i \in 1..(j - 1) : fwTrace[i].ev = "InitAll" /\ fwTrace[i].pending = {}
          /\ fwTrace[j].ev = "system.ready" =>
                devicesAtStart \subseteq
                    {fwTrace[i].dev : i \in {k \in 1..(j - 1) : fwTrace[k].ev = "OnInitialize"}}
          /\ fwTrace[j].ev = "Started" => fwTrace[j - 1].ev = "system.ready"
    /\ fwState \in {"Started", "Stopping", "Stopped"} <=>
          (\E j \in DOMAIN fwTrace : fwTrace[j].ev = "Started")

\* C10 witness: Start has returned with three plugins started and both devices,
\* registered before Start, initialized.
C10_Witness ==
    /\ fwState = "Started"
    /\ devicesAtStart = Devices
    /\ Cardinality(CalledOk) = 3
    /\ Len(fwTrace) = 7


\* ---- C21, C22: property-set messages ----

PropHandled == propMsg.state \in {"replied", "reply failed"}

ReplyIndexes == {i \in 1..Len(propLog) : propLog[i].ev = "reply"}

\* The setter of every property of params that is writable, and was not
\* registered anew since the message arrived, was called with the supplied value
\* before any reply.
SettersBeforeReply ==
    \A n \in DOMAIN propMsg.payload.params :
        (fwProps[n] = "rw" /\ n \notin propMsg.touched) =>
            \E i \in 1..Len(propLog) :
                /\ propLog[i] = PropEntry("setter", n, propMsg.payload.params[n])
                /\ \A j \in ReplyIndexes : i < j

OneReply ==
    /\ Cardinality(ReplyIndexes) = 1
    /\ propLog[Len(propLog)] = PropEntry("reply", propMsg.payload.id, "200")

C22_ReadOnlyWriteRejected ==
    (PropHandled /\ propMsg.readOnly # {}) => propMsg.emitErr


\* ---- C23: service.call ----

SvcReturned == svcPc = "idle" /\ svcReq.typed /\ svcReq.returned # "none"

SvcIndexes(ev) == {i \in 1..Len(svcLog) : svcLog[i].ev = ev}

SvcPanicked == \E i \in 1..Len(svcLog) : svcLog[i].value = "panic"

\* The event went to a registered handler: called once, then one response with
\* the request's id and code 0 for a result, -1 for an error.
ByHandler ==
    /\ Len(svcLog) = 2
    /\ svcLog[1].ev = "handler" /\ svcLog[1].who = svcReq.service
    /\ svcLog[1].value \in {"result", "error"}
    /\ svcLog[2] = SvcEntry("response", "framework", svcReq.id,
                            IF svcLog[1].value = "error" THEN "-1" ELSE "0")
    /\ svcReq.returned = "nil"

\* The event went to the devices: each tried at most once, every one before the
\* last with an error; the last one without error and its response emitted, or
\* all with an error, no response and the not-found error.
ByDevices ==
    /\ SvcIndexes("handler") = {}
    /\ \A i, j \in SvcIndexes("OnServiceInvoke") : svcLog[i].who = svcLog[j].who => i = j
    /\ \A i \in SvcIndexes("OnServiceInvoke") :
          svcLog[i].value = "ok" =>
              /\ i + 1 = Len(svcLog)
              /\ svcLog[i + 1].ev = "response" /\ svcLog[i + 1].who = svcLog[i].who
    /\ IF \E i \in SvcIndexes("OnServiceInvoke") : svcLog[i].value = "ok"
       THEN Cardinality(SvcIndexes("response")) = 1 /\ svcReq.returned = "nil"
       ELSE SvcIndexes("response") = {} /\ svcReq.returned = "not found"

\* C23 as stated: a service.call yields at most one service.response; a
\* registered handler is called exactly once and one response with the request's
\* id and its result or error is emitted; otherwise the devices are tried until
\* one returns without error, whose response is emitted; if none does, there is
\* no response and the not-found error.
C23_ServiceCallAsClaimed ==
    /\ Cardinality(SvcIndexes("response")) <= 1
    /\ SvcReturned => (ByHandler \/ ByDevices)

\* C23 amended: as stated for handlers and devices that return; when the handler
\* or a device's OnServiceInvoke panics, no response is emitted, no further
\* device is tried and the panic is what the event's handler returns.
C23_ServiceCall ==
    /\ Cardinality(SvcIndexes("response")) <= 1
    /\ (SvcReturned /\ ~SvcPanicked) => (ByHandler \/ ByDevices)
    /\ (SvcReturned /\ SvcPanicked) =>
          /\ SvcIndexes("response") = {}
          /\ svcLog[Len(svcLog)].value = "panic"
          /\ svcReq.returned = "panic"
    /\ (svcPc = "idle" /\ svcReq.returned = "invalid service request") => svcLog = <<>>

C23_Witness ==
    /\ SvcReturned
    /\ ByDevices
    /\ Len(svcLog) = 3
    /\ svcLog[1].value = "error"


\* ---- C24, C25: the session lost and re-established ----

\* C24: once the session has been lost and re-established, every filter stored
\* in the client's topic -> handler table is subscribed at the broker.
C24_StoredResubscribed ==
    (connReconnected /\ IsConnected) => connStored \subseteq connBroker

\* C25: whenever the session is lost, GetConnectionState eventually stops
\* reporting Connected.
C25_StateFollowsSession ==
    (connLink = "lost") ~> (connState # "Connected")


\* ---- C26: Publish after Stop ----

\* The Publish was a no-op: it has returned nil at once, with no handler invoked,
\* no task submitted and no panic.
PublishWasNoOp ==
    /\ pubPc = "idle"
    /\ pubResult = "nil"
    /\ pubLog = <<>>
    /\ busCrash = "none"

C27_SyncBeforeAsync ==
    \A i, j \in DOMAIN pubLog :
        i < j => ~(pubLog[i].ev = "async" /\ pubLog[j].ev = "sync")


\* ---- C28: handlers of equal priority ----

\* C28: the handlers of equal priority stand in the list, and were invoked by
\* the last Publish, in the order in which they were subscribed.
C28_TiesInSubscriptionOrder ==
    /\ \A i, j \in DOMAIN sortSubs :
          (i < j /\ sortSubs[i].Priority = sortSubs[j].Priority) => sortSubs[i].id < sortSubs[j].id
    /\ \A i, j \in DOMAIN sortInvoked :
          (i < j /\ \E p \in Priorities :
                       \E k, l \in DOMAIN sortSubs :
                           /\ sortSubs[k].id = sortInvoked[i] /\ sortSubs[l].id = sortInvoked[j]
                           /\ sortSubs[k].Priority = p /\ sortSubs[l].Priority = p)
              => sortInvoked[i] < sortInvoked[j]


\* ---- C29, C30: locks ----

\* StopAll, holding pluginsMutex, waits in OTAPlugin.Stop for p.mu, whose holder
\* waits in framework.GetPlugin for pluginsMutex.
CyclicWait ==
    /\ pmWriter /\ lockStopPc = "ota"
    /\ \E d \in Devices : otaMu = d /\ regPc[d] = "getPlugin"

\* C29: there is no cyclic wait between the plugin manager's lock and the OTA
\* plugin's lock, so StopAll is never stuck with a device registration in flight.
C29_NoCyclicWait == ~CyclicWait

\* C30: a device callback runs with no write lock of the device table held by
\* its caller, and never waits for the table's lock for ever.
C30_NoCallbackUnderWriteLock ==
    /\ tblCall # NoCall => tblWriter = "none"
    /\ ~tblBlocked

\* ---- C31: Publish against concurrent Subscribe and Unsubscribe ----

\* How many times the running Publish has invoked the handler function h.
TimesInvoked(h) ==
    Cardinality({k \in DOMAIN Invocations : pubCopy[Invocations[k].idx].id = h})

\* The running Publish has invoked or handed over every entry of its copy and
\* every task has run: only the return is left.
PublishComplete ==
    /\ pubPc = "wait"
    /\ \A i \in DOMAIN pubCopy : pubCopy[i].Async => pubTask[i] = "done"

\* C31 (as claimed): under any interleaving with Subscribe and Unsubscribe calls,
\* one Publish invokes no handler more than once, and when it is about to return
\* it has invoked exactly once every handler that was subscribed from its lookup
\* to that moment.
C31_SnapshotUnderLock ==
    /\ \A h \in Handlers : TimesInvoked(h.id) <= 1
    /\ PublishComplete => \A h \in pubStayed : TimesInvoked(h) = 1

\* ---- C32: RegisterDevice against Start ----

\* OnInitialize was called on the device, by Start's loop or by the goroutine of
\* RegisterDevice, or that goroutine has been started and will call it.
InitializeDelivered(d) == d \in fwInitDone \/ d \in asyncInited \/ d \in asyncInit

\* C32 (as claimed): for every interleaving of RegisterDevice with Start, once
\* the state is Started every registered device has received OnInitialize (or
\* the goroutine that delivers it is running), and no device receives it both
\* from Start and from RegisterDevice.
C32_EveryDeviceInitialized ==
    /\ fwInitDone \cap (asyncInited \cup asyncInit) = {}
    /\ fwState = "Started" => \A d \in devices : InitializeDelivered(d)

\* ---- C33: handlers that publish ----

\* Every worker of a started pool is blocked in the wg.Wait() of the Publish its
\* handler called, the task it waits for is in the queue behind it, and the
\* queue is not full.
AllWorkersWaitBehindQueue ==
    /\ poolCount >= 1
    /\ Len(poolQueue) < PoolCap
    /\ \A w \in 1..poolCount :
          \E i \in 1..OuterHandlers :
              /\ poolRunner[OuterTask(i)] = w
              /\ poolTask[OuterTask(i)] = "wait"
              /\ poolTask[InnerTask(i)] = "queued"

\* C33 (as claimed): when async handlers running on the pool workers call
\* Publish for an event type with async handlers, the workers are never all
\* blocked waiting for tasks queued behind them in the non-full queue, so the
\* application's Publish is never left waiting for ever.
C33_NestedPublishReturns == ~(outerPc = "wait" /\ AllWorkersWaitBehindQueue)

\* ---- C34: Publish against Stop ----

\* Stop has returned while the running Publish waits in wg.Wait() for a task that
\* is still in the queue: every worker has exited, so the wait never ends.
WaitsForAbandonedTask ==
    /\ busStopPc = "returned"
    /\ pubPc = "wait"
    /\ \E i \in DOMAIN pubTask : pubTask[i] = "queued"

\* C34 (as claimed): a Publish that read a handler list with an async handler
\* before Stop cleared the subscribers never executes submitWork's send after
\* close(workerPool), so it does not panic, and it is not left waiting for ever.
C34_NoSendAfterClose ==
    /\ busCrash # "sendOnClosed"
    /\ ~WaitsForAbandonedTask

\* ---- C35: Start that fails ----

\* Start has started the event bus workers and no Stop has stopped the bus.
BusWorkersLive ==
    /\ \E i \in DOMAIN fwTrace : fwTrace[i].ev = "eventBus.Start"
    /\ ~ \E i \in DOMAIN fwStopTrace : fwStopTrace[i].ev = "eventBus.Stop"

\* No lifecycle call is in progress and each of Initialize, Start and Stop
\* returns an error in the current state.
EveryLifecycleCallRejected ==
    /\ fwPc \in {"idle", "failed", "done"}
    /\ fwStopPc \in {"idle", "done"}
    /\ fwState # "Uninitialized"
    /\ fwState # "Initialized"
    /\ ~StopAllowed(fwState)

\* C35 (as claimed): after a Start that failed on a plugin's Init or Start, the
\* plugins already started can still be stopped: no reachable state has running
\* plugins and live event bus workers while Initialize, Start and Stop are all
\* rejected.
C35_FailedStartCanBeStopped ==
    ~(running # {} /\ BusWorkersLive /\ EveryLifecycleCallRejected)

\* ---- C36: callbacks after OnDestroy ----

\* The callbacks invoked on device d after its OnDestroy.
AfterDestroy(d) ==
    {cbLog[d][j] : j \in {k \in DOMAIN cbLog[d] :
                             \E i \in DOMAIN cbLog[d] : i < k /\ cbLog[d][i] = "OnDestroy"}}

\* C36 (as claimed): once Stop has called OnDestroy on a device, none of
\* OnDisconnect, OnPropertySet, OnServiceInvoke and OnInitialize is called on it.
C36_NothingAfterOnDestroy ==
    \A d \in Devices :
        AfterDestroy(d) \cap {"OnDisconnect", "OnPropertySet", "OnServiceInvoke", "OnInitialize"} = {}

\* ---- C37: the started flag ----

\* C37 (as claimed): for every registered plugin, started[name] is true exactly
\* when the plugin is running, i.e. when the last lifecycle call made on it was
\* a successful Start; this holds also after an Unregister that was refused
\* because another plugin depends on the target.
C37_StartedFlagAgrees ==
    \A p \in plugins : (p \in started) <=> (p \in running)

\* ---- C38: the session after Disconnect ----

\* C38 (as claimed): after Client.Disconnect has returned (MQTTPlugin.Stop calls
\* it and Connect is not called again), the session is never connected again,
\* also when Disconnect found c.connected false because the connection had just
\* been lost.
C38_DisconnectIsFinal ==
    connPlugin = "stopped" => (connLink # "up" /\ ~connFlag)

\* ---- C39: registrations against OTAPlugin.Stop ----

\* OTAPlugin.Stop has returned to StopAll.
OTAPluginStopped == lockStopPc \in {"mqtt", "returned"}

\* C39 (as claimed): after OTAPlugin.Stop has returned, the manager map stays
\* empty: a registration still in flight cannot create and start a manager.
C39_NoManagerAfterStop == OTAPluginStopped => otaManagers = {}

\* ---- C40: the registry's dependency relation ----

\* The plugins reachable from the set S along declared dependencies, S included.
RECURSIVE DepClosure(_)
DepClosure(S) ==
    LET T == S \cup UNION {deps[q] : q \in S}
    IN IF T = S THEN S ELSE DepClosure(T)

\* No registered plugin depends on itself, directly or through others.
Acyclic == \A p \in plugins : p \notin DepClosure(deps[p])

\* InitAll or StartAll has returned.
SweepsReturned == opKind \in {"InitAll", "StartAll"} /\ mgrOp = "idle"

\* C40: in every registry reached through Register and Unregister calls, every
\* declared dependency of a registered plugin is registered and the dependency
\* relation is acyclic; so no sweep of InitAll or StartAll ends without
\* progress (the circular-dependency error is never returned), a nil result
\* means every registered plugin was processed, and an error is the error of a
\* plugin's own Init or Start.
C40_RegistryAcyclic ==
    /\ \A p \in plugins : deps[p] \subseteq plugins
    /\ Acyclic
    /\ (mgrOp \in {"InitAll", "StartAll"} /\ sweepTodo = {}) => progress
    /\ (SweepsReturned /\ opResult = "ok") => CalledOk = opPlugins
    /\ (SweepsReturned /\ opResult = "error") =>
          (opLog # <<>> /\ ~opLog[Len(opLog)].ok)

\* C40 witness: with rule depending on ota and ota on mqtt, all three are
\* registered, StartAll has started all of them and returned nil, and an
\* Unregister of a plugin another one depends on has been refused.
C40_Witness ==
    /\ deps = [mqtt |-> {}, ota |-> {"mqtt"}, rule |-> {"ota"}]
    /\ plugins = Names
    /\ opKind = "StartAll" /\ mgrOp = "idle" /\ opResult = "ok"
    /\ CalledOk = Names
    /\ regResult = "depends on it"

====
